---- MODULE Spec2Model ----
(***************************************************************************)
(* Model of blockchain-core: the Blockchain engine (blockchain.rs), the    *)
(* Block value (block.rs) and the consensus algorithms behind the          *)
(* ConsensusAlgorithm trait (consensus/*.rs).                               *)
(*                                                                         *)
(* Strings are TLA+ strings; format!("{}{}...") is string concatenation,   *)
(* so two field lists that print to the same text hash to the same digest, *)
(* as in the program.  SHA-256 is modelled symbolically: Sha256(s) is a    *)
(* few leading digits computed from s, followed by s itself in brackets.   *)
(* It is injective (no collisions), deterministic, and its leading digits  *)
(* vary with the input, which is what the zero-prefix search relies on.    *)
(***************************************************************************)
EXTENDS Integers, Sequences, FiniteSets, TLC

(***************************************************************************)
(* Bounds of the model.                                                    *)
(***************************************************************************)
\* number of leading digest digits that are modelled
DigestDigits == 4
\* the proof-of-work search loop is followed up to this nonce
MaxNonce == 99
\* longest chain (genesis included) the engine grows
MaxBlocks == 3
\* largest value of consensus_failures the engine is driven to
MaxFailures == 1
\* the wall clock (seconds) runs from 0 to MaxTime
MaxTime == 0

(***************************************************************************)
(* Program constants.                                                      *)
(***************************************************************************)
\* length of format!("{:x}", sha256): 64 hex characters
HashHexLen == 64
\* Block::new: default difficulty
BlockDefaultDifficulty == 4
\* ConsensusType::default(): ProofOfWork { difficulty: 4 }
DefaultPowDifficulty == 4
\* pbft.rs: the primary rotates when current_sequence % 10 == 0
RotationPeriod == 10

(***************************************************************************)
(* Inputs.                                                                 *)
(***************************************************************************)
\* payloads handed to add_block / Block::new
Payloads == {"tx1"}
\* start.elapsed().as_millis() as observed by add_block
Durations == {3}

(***************************************************************************)
(* SHA-256 and hex rendering.                                              *)
(***************************************************************************)
\* digits a digest is rendered with ('0' first); two symbols instead of
\* sixteen keep the zero-prefix search short
HexAlphabet == "01"
HexBase == Len(HexAlphabet)

RECURSIVE Pow(_, _)
Pow(b, e) == IF e = 0 THEN 1 ELSE b * Pow(b, e - 1)

DigestModulus == Pow(HexBase, DigestDigits)

CharAt(s, i) == SubSeq(s, i, i)

CharCode(c) ==
  CASE c = "0" -> 0 [] c = "1" -> 1 [] c = "2" -> 2 [] c = "3" -> 3
    [] c = "4" -> 4 [] c = "5" -> 5 [] c = "6" -> 6 [] c = "7" -> 7
    [] c = "8" -> 8 [] c = "9" -> 9 [] c = ">" -> 11 [] c = "_" -> 12
    [] OTHER -> 13

\* code of the i-th character from the end (0 when the text is shorter)
CodeFromEnd(s, i) == IF Len(s) >= i THEN CharCode(CharAt(s, Len(s) + 1 - i)) ELSE 0

\* the number the leading digest digits spell: a function of the text only
DigestLead(s) ==
  (7 * Len(s) + 3 * CodeFromEnd(s, 1) + 5 * CodeFromEnd(s, 2) + CodeFromEnd(s, 3))
    % DigestModulus

RECURSIVE RenderDigits(_, _)
RenderDigits(v, k) ==
  IF k = 0 THEN "" ELSE RenderDigits(v \div HexBase, k - 1) \o CharAt(HexAlphabet, (v % HexBase) + 1)

\* format!("{:x}", Sha256::digest(s))
Sha256(s) == RenderDigits(DigestLead(s), DigestDigits) \o "<" \o s \o ">"

IsDigest(h) == Len(h) > DigestDigits /\ CharAt(h, DigestDigits + 1) = "<"

\* String::len() of a hash field: 64 for a digest, the text's own length otherwise
HashLen(h) == IF IsDigest(h) THEN HashHexLen ELSE Len(h)

RECURSIVE ParseDigits(_, _, _)
ParseDigits(h, i, acc) ==
  IF i > DigestDigits THEN acc
  ELSE ParseDigits(h, i + 1,
         acc * HexBase + (CHOOSE d \in 0..(HexBase - 1) : CharAt(HexAlphabet, d + 1) = CharAt(h, i)))

\* the number spelled by the leading digits of a digest
LeadValue(h) == ParseDigits(h, 1, 0)

RECURSIVE Repeat(_, _)
\* str::repeat
Repeat(c, n) == IF n = 0 THEN "" ELSE c \o Repeat(c, n - 1)

\* &hash[..d] == "0".repeat(d), for d within the hash (d <= 64); digits past
\* the modelled ones are taken to be non-zero
ZeroPrefix(h, d) == d <= DigestDigits /\ SubSeq(h, 1, d) = Repeat("0", d)

\* &hash[..d] panics when d is past the end of the hash
SlicePanics(h, d) == d > HashLen(h)

(***************************************************************************)
(* HashMap<String, String>: a set of <<key, value>> pairs.                 *)
(***************************************************************************)
EmptyMap == {}
MapGet(m, k) == IF \E p \in m : p[1] = k THEN (CHOOSE p \in m : p[1] = k)[2] ELSE "None"
MapHas(m, k) == \E p \in m : p[1] = k

(***************************************************************************)
(* block.rs                                                                *)
(***************************************************************************)
\* a variant of Block::new that drops the link to the previous block
BlockNew_unlinked(index, data, previous_hash, timestamp) ==
  [index |-> index, timestamp |-> timestamp, data |-> data,
   previous_hash |-> "0", hash |-> "", nonce |-> 0,
   difficulty |-> BlockDefaultDifficulty, consensus_data |-> EmptyMap]

\* Block::new
BlockNew(index, data, previous_hash, timestamp) ==
  [index |-> index, timestamp |-> timestamp, data |-> data,
   previous_hash |-> previous_hash, hash |-> "", nonce |-> 0,
   difficulty |-> BlockDefaultDifficulty, consensus_data |-> EmptyMap]

\* Block::set_consensus_data
set_consensus_data(block, data) == [block EXCEPT !.consensus_data = data]

\* the leading "{}{}{}{}" of every proof digest: index, timestamp, data, previous_hash
BlockFields(block) ==
  ToString(block.index) \o ToString(block.timestamp) \o block.data \o block.previous_hash

(***************************************************************************)
(* Results of execute_consensus.  energy_cost is in units of 0.0001.       *)
(***************************************************************************)
\* Ok(ConsensusResult { block, proof_data, energy_cost: Some(energy), .. })
ExecOk(alg, block, proof_data, energy) ==
  [ok |-> TRUE, returns |-> TRUE, panics |-> FALSE, alg |-> alg, block |-> block,
   proof_data |-> proof_data, energy_cost |-> energy, error |-> ""]

\* Err(msg); alg and block are the instance and the block as the call left them
ExecErr(alg, block, msg) ==
  [ok |-> FALSE, returns |-> TRUE, panics |-> FALSE, alg |-> alg, block |-> block,
   proof_data |-> EmptyMap, energy_cost |-> 0, error |-> msg]

\* the call is still running (a search loop followed to its bound)
ExecRunning(alg, block) ==
  [ok |-> FALSE, returns |-> FALSE, panics |-> FALSE, alg |-> alg, block |-> block,
   proof_data |-> EmptyMap, energy_cost |-> 0, error |-> ""]

\* the call panics: the thread unwinds and nothing is returned
ExecPanic(alg, block, msg) ==
  [ok |-> FALSE, returns |-> FALSE, panics |-> TRUE, alg |-> alg, block |-> block,
   proof_data |-> EmptyMap, energy_cost |-> 0, error |-> msg]

(***************************************************************************)
(* consensus/pow.rs                                                        *)
(***************************************************************************)
\* ProofOfWork::new
\* ProofOfWork::with_target_time; target_time in whole seconds
PoW_with_target_time(difficulty, target_time) ==
  [kind |-> "ProofOfWork", difficulty |-> difficulty, target_time |-> target_time]

\* Duration::from_secs(60), the target time ProofOfWork::new sets
DefaultTargetSeconds == 60

PoW_new(difficulty) == PoW_with_target_time(difficulty, DefaultTargetSeconds)

\* ProofOfWork::calculate_hash
PoW_calculate_hash(pow, block, nonce) ==
  Sha256(BlockFields(block) \o ToString(nonce) \o ToString(pow.difficulty))

RECURSIVE PoW_mine_from(_, _, _)
\* the loop of ProofOfWork::mine_block from a given nonce; -1 when the loop is
\* still running at MaxNonce
PoW_mine_from(pow, block, nonce) ==
  IF ZeroPrefix(PoW_calculate_hash(pow, block, nonce), pow.difficulty) THEN nonce
  ELSE IF nonce >= MaxNonce THEN -1
  ELSE PoW_mine_from(pow, block, nonce + 1)

\* a variant of mine_block that starts the search at nonce 1
PoW_mine_block_from_one(pow, block) == PoW_mine_from(pow, block, 1)

\* ProofOfWork::mine_block: the nonce found
PoW_mine_block(pow, block) == PoW_mine_from(pow, block, 0)

\* ProofOfWork::execute_consensus
PoW_execute_consensus(pow, block) ==
  LET found(nonce) ==
        LET hash == PoW_calculate_hash(pow, block, nonce)
            mined == [block EXCEPT !.nonce = nonce, !.hash = hash, !.difficulty = pow.difficulty]
            proof_data == {<<"nonce", ToString(nonce)>>,
                           <<"difficulty", ToString(pow.difficulty)>>,
                           <<"target", Repeat("0", pow.difficulty)>>}
        IN IF nonce < 0 THEN ExecRunning(pow, block)
           ELSE ExecOk(pow, mined, proof_data, nonce)
  IN IF SlicePanics(PoW_calculate_hash(pow, block, 0), pow.difficulty)
     THEN ExecPanic(pow, block, "byte index out of bounds")
     ELSE found(PoW_mine_block(pow, block))

\* ProofOfWork::validate_block panics instead of returning
PoW_validate_panics(pow, block) ==
  SlicePanics(PoW_calculate_hash(pow, block, block.nonce), pow.difficulty)

\* ProofOfWork::validate_block
PoW_validate_block(pow, block) ==
  LET hash == PoW_calculate_hash(pow, block, block.nonce)
  IN ZeroPrefix(hash, pow.difficulty) /\ hash = block.hash

\* i64 division: the quotient is truncated toward zero
I64Div(a, b) == IF a >= 0 THEN a \div b ELSE -((-a) \div b)

\* the slice blocks[from..], from counted from 0
SliceFrom(s, from) == SubSeq(s, from + 1, Len(s))

\* recent_blocks.windows(2).map(|pair| pair[1].timestamp - pair[0].timestamp).sum()
RECURSIVE WindowsTimeSum(_, _)
WindowsTimeSum(recent_blocks, i) ==
  IF i >= Len(recent_blocks) THEN 0
  ELSE (recent_blocks[i + 1].timestamp - recent_blocks[i].timestamp)
       + WindowsTimeSum(recent_blocks, i + 1)

\* the number of trailing blocks calculate_next_difficulty looks at
RecentWindow == 10

\* the variant that averages over the whole history
PoW_calculate_next_difficulty_whole_history(pow, chain) ==
  IF Len(chain) < 2 THEN pow.difficulty
  ELSE LET avg_time == I64Div(WindowsTimeSum(chain, 1), Len(chain) - 1)
           target_seconds == pow.target_time
       IN IF avg_time < I64Div(target_seconds, 2) THEN pow.difficulty + 1
          ELSE IF avg_time > target_seconds * 2
               THEN (IF pow.difficulty >= 1 THEN pow.difficulty - 1 ELSE 0)
               ELSE pow.difficulty

\* ProofOfWork::calculate_next_difficulty; the Option is always Some
PoW_calculate_next_difficulty(pow, chain) ==
  IF Len(chain) < 2 THEN pow.difficulty
  ELSE LET from == IF Len(chain) >= RecentWindow THEN Len(chain) - RecentWindow ELSE 0
           recent_blocks == SliceFrom(chain, from)
           total_time == WindowsTimeSum(recent_blocks, 1)
           avg_time == I64Div(total_time, Len(recent_blocks) - 1)
           target_seconds == pow.target_time
       IN IF avg_time < I64Div(target_seconds, 2) THEN pow.difficulty + 1
          ELSE IF avg_time > target_seconds * 2
               THEN (IF pow.difficulty >= 1 THEN pow.difficulty - 1 ELSE 0)
               ELSE pow.difficulty

(***************************************************************************)
(* StdRng::from_seed(seed).random::<f64>(): a deterministic draw in [0,1)  *)
(* fixed by the seed; the draw is DrawOf(seed) / DigestModulus.            *)
(***************************************************************************)
DrawOf(seed) == LeadValue(seed)

(***************************************************************************)
(* consensus/pos.rs.  reputation is in hundredths (100 is 1.0).            *)
(***************************************************************************)
\* ProofOfStake::new
PoS_new(minimum_stake) ==
  [kind |-> "ProofOfStake", validators |-> <<>>, minimum_stake |-> minimum_stake,
   slashing_rate |-> 10]

\* ProofOfStake::create_seed_from_hash
PoS_create_seed_from_hash(hash) == Sha256(hash)

\* stake as f64 * reputation, in hundredths
PoS_weight(v) == v.stake * v.reputation

RECURSIVE PoS_cumulative(_, _)
\* the running sum of the weights of validators[1..i]
PoS_cumulative(validators, i) ==
  IF i = 0 THEN 0 ELSE PoS_cumulative(validators, i - 1) + PoS_weight(validators[i])

\* the variant that puts an accepted validator at the head of the list
PoS_add_validator_at_front(pos, address, stake) ==
  IF stake < pos.minimum_stake
  THEN [ok |-> FALSE, alg |-> pos,
        error |-> "Stake " \o ToString(stake) \o " is below minimum "
                    \o ToString(pos.minimum_stake)]
  ELSE [ok |-> TRUE,
        alg |-> [pos EXCEPT !.validators =
                   <<[address |-> address, stake |-> stake, reputation |-> 100]>> \o @],
        error |-> ""]

\* ProofOfStake::add_validator
PoS_add_validator(pos, address, stake) ==
  IF stake < pos.minimum_stake
  THEN [ok |-> FALSE, alg |-> pos,
        error |-> "Stake " \o ToString(stake) \o " is below minimum "
                    \o ToString(pos.minimum_stake)]
  ELSE [ok |-> TRUE,
        alg |-> [pos EXCEPT !.validators =
                   Append(@, [address |-> address, stake |-> stake, reputation |-> 100])],
        error |-> ""]

\* select_validator with the seed drawn from the block's index as well
PoS_select_validator_by_index(pos, block) ==
  LET n == Len(pos.validators)
      total == PoS_cumulative(pos.validators, n)
      draw == DrawOf(PoS_create_seed_from_hash(block.previous_hash \o ToString(block.index)))
      covers(i) == PoS_cumulative(pos.validators, i) * DigestModulus >= draw * total
  IN IF n = 0 THEN 0
     ELSE IF total = 0 THEN 0
     ELSE IF \E i \in 1..n : covers(i) THEN CHOOSE i \in 1..n : covers(i) /\ \A j \in 1..(i - 1) : ~covers(j)
     ELSE n

\* ProofOfStake::select_validator: the position selected, 0 for None
PoS_select_validator(pos, block) ==
  LET n == Len(pos.validators)
      total == PoS_cumulative(pos.validators, n)
      draw == DrawOf(PoS_create_seed_from_hash(block.previous_hash))
      \* cumulative_stake >= random_value, with random_value = draw / DigestModulus * total
      covers(i) == PoS_cumulative(pos.validators, i) * DigestModulus >= draw * total
  IN IF n = 0 THEN 0
     ELSE IF total = 0 THEN 0
     ELSE IF \E i \in 1..n : covers(i) THEN CHOOSE i \in 1..n : covers(i) /\ \A j \in 1..(i - 1) : ~covers(j)
     ELSE n

\* ProofOfStake::create_block_signature
PoS_create_block_signature(block, validator) ==
  Sha256(BlockFields(block) \o validator.address \o ToString(validator.stake))

\* ProofOfStake::calculate_rewards
PoS_calculate_rewards(validator) ==
  LET base_reward == IF validator.stake \div 1000 >= 1 THEN validator.stake \div 1000 ELSE 1
  IN (base_reward * validator.reputation) \div 100

\* ProofOfStake::execute_consensus
PoS_execute_consensus(pos, block) ==
  LET sel == PoS_select_validator(pos, block)
  IN IF sel = 0 THEN ExecErr(pos, block, "No validators available")
     ELSE LET validator == pos.validators[sel]
              signature == PoS_create_block_signature(block, validator)
              signed == [block EXCEPT !.hash = signature, !.nonce = validator.stake]
              proof_data == {<<"validator_address", validator.address>>,
                             <<"validator_stake", ToString(validator.stake)>>,
                             <<"validator_reputation", ToString(validator.reputation) \o "/100">>,
                             <<"signature", signature>>,
                             <<"reward", ToString(PoS_calculate_rewards(validator))>>}
          IN ExecOk(pos, signed, proof_data, 10)

\* ProofOfStake::validate_block
PoS_validate_block(pos, block) ==
  LET found == {i \in 1..Len(pos.validators) : pos.validators[i].stake = block.nonce}
  IN IF found = {} THEN FALSE
     ELSE LET first == CHOOSE i \in found : \A j \in found : i <= j
          IN PoS_create_block_signature(block, pos.validators[first]) = block.hash

(***************************************************************************)
(* consensus/poa.rs                                                        *)
(***************************************************************************)
\* ProofOfAuthority::new
PoA_new(authorities) ==
  [kind |-> "ProofOfAuthority",
   authorities |-> [i \in 1..Len(authorities) |->
                      [address |-> authorities[i],
                       public_key |-> "pubkey_" \o ToString(i - 1),
                       reputation_score |-> 100,
                       is_active |-> TRUE]],
   current_authority_index |-> 0,
   block_interval |-> 15,
   required_confirmations |-> 2]

\* get_current_authority that does not look at is_active
PoA_get_current_authority_any(poa) ==
  IF poa.current_authority_index < Len(poa.authorities)
  THEN poa.current_authority_index + 1
  ELSE 0

\* ProofOfAuthority::get_current_authority: the list position (1-based), 0 for None
PoA_get_current_authority(poa) ==
  IF poa.current_authority_index < Len(poa.authorities)
     /\ poa.authorities[poa.current_authority_index + 1].is_active
  THEN poa.current_authority_index + 1
  ELSE 0

RECURSIVE PoA_rotate_loop(_, _, _)
\* the loop of ProofOfAuthority::rotate_authority
PoA_rotate_loop(poa, index, start_index) ==
  IF index < Len(poa.authorities) /\ poa.authorities[index + 1].is_active THEN index
  ELSE LET next == (index + 1) % Len(poa.authorities)
       IN IF next = start_index THEN next ELSE PoA_rotate_loop(poa, next, start_index)

\* a variant of rotate_authority that leaves the turn where it is
PoA_rotate_authority_stuck(poa) == poa

\* rotate_authority that moves the turn on by one, to an inactive authority too
PoA_rotate_authority_by_one(poa) ==
  [poa EXCEPT !.current_authority_index = (@ + 1) % Len(poa.authorities)]

\* ProofOfAuthority::rotate_authority
PoA_rotate_authority(poa) ==
  LET start_index == (poa.current_authority_index + 1) % Len(poa.authorities)
  IN [poa EXCEPT !.current_authority_index = PoA_rotate_loop(poa, start_index, start_index)]

\* ProofOfAuthority::create_authority_signature
PoA_create_authority_signature(block, authority) ==
  Sha256(BlockFields(block) \o authority.address \o authority.public_key)

\* ProofOfAuthority::execute_consensus
PoA_execute_consensus(poa, block) ==
  LET cur == PoA_get_current_authority(poa)
  IN IF cur = 0 THEN ExecErr(poa, block, "No active authorities available")
     ELSE LET authority == poa.authorities[cur]
              signature == PoA_create_authority_signature(block, authority)
              signed == [block EXCEPT !.hash = signature,
                                      !.nonce = poa.current_authority_index]
              proof_data == {<<"authority_address", authority.address>>,
                             <<"authority_index", ToString(signed.nonce)>>,
                             <<"authority_reputation", ToString(authority.reputation_score)>>,
                             <<"signature", signature>>,
                             <<"block_interval_seconds", ToString(poa.block_interval)>>}
          IN ExecOk(PoA_rotate_authority(poa), signed, proof_data, 1)

\* a variant of validate_block that checks the authority whose turn it is
PoA_validate_block_current(poa, block) ==
  IF poa.current_authority_index >= Len(poa.authorities) THEN FALSE
  ELSE LET authority == poa.authorities[poa.current_authority_index + 1]
       IN IF ~authority.is_active THEN FALSE
          ELSE PoA_create_authority_signature(block, authority) = block.hash

\* ProofOfAuthority::validate_block
PoA_validate_block(poa, block) ==
  LET authority_index == block.nonce
  IN IF authority_index >= Len(poa.authorities) THEN FALSE
     ELSE LET authority == poa.authorities[authority_index + 1]
          IN IF ~authority.is_active THEN FALSE
             ELSE PoA_create_authority_signature(block, authority) = block.hash

\* ProofOfAuthority::add_authority: <<ok, instance>>
PoA_add_authority(poa, address, public_key) ==
  IF \E i \in 1..Len(poa.authorities) : poa.authorities[i].address = address
  THEN [ok |-> FALSE, alg |-> poa, error |-> "Authority already exists"]
  ELSE [ok |-> TRUE,
        alg |-> [poa EXCEPT !.authorities =
                   Append(@, [address |-> address, public_key |-> public_key,
                              reputation_score |-> 100, is_active |-> TRUE])],
        error |-> ""]

\* Vec::remove(pos), pos 1-based
SeqRemove(s, pos) == [i \in 1..(Len(s) - 1) |-> IF i < pos THEN s[i] ELSE s[i + 1]]

\* remove_authority that leaves the turn where it was
PoA_remove_authority_keep_index(poa, address) ==
  LET found == {i \in 1..Len(poa.authorities) : poa.authorities[i].address = address}
  IN IF found = {} THEN [ok |-> FALSE, alg |-> poa, error |-> "Authority not found"]
     ELSE IF Len(poa.authorities) <= 1
     THEN [ok |-> FALSE, alg |-> poa, error |-> "Cannot remove last authority"]
     ELSE LET pos == CHOOSE i \in found : \A j \in found : i <= j
          IN [ok |-> TRUE,
              alg |-> [poa EXCEPT !.authorities = SeqRemove(poa.authorities, pos)],
              error |-> ""]

\* ProofOfAuthority::remove_authority
PoA_remove_authority(poa, address) ==
  LET found == {i \in 1..Len(poa.authorities) : poa.authorities[i].address = address}
  IN IF found = {} THEN [ok |-> FALSE, alg |-> poa, error |-> "Authority not found"]
     ELSE IF Len(poa.authorities) <= 1
     THEN [ok |-> FALSE, alg |-> poa, error |-> "Cannot remove last authority"]
     ELSE LET pos == CHOOSE i \in found : \A j \in found : i <= j
              rest == SeqRemove(poa.authorities, pos)
          IN [ok |-> TRUE,
              alg |-> [poa EXCEPT !.authorities = rest,
                                  !.current_authority_index =
                                     IF @ >= Len(rest) THEN 0 ELSE @],
              error |-> ""]

(***************************************************************************)
(* consensus/poh.rs                                                        *)
(***************************************************************************)
\* ProofOfHistory::new
PoH_new(vdf_iterations) ==
  [kind |-> "ProofOfHistory", vdf_iterations |-> vdf_iterations,
   sequence_number |-> 0, previous_output |-> "genesis"]

RECURSIVE PoH_compute_vdf(_, _)
\* ProofOfHistory::compute_vdf
PoH_compute_vdf(input, iterations) ==
  IF iterations = 0 THEN input ELSE PoH_compute_vdf(Sha256(input), iterations - 1)

\* ProofOfHistory::create_history_proof: the output (the instance advances in execute)
PoH_create_history_proof(poh, block) ==
  PoH_compute_vdf(poh.previous_output \o BlockFields(block), poh.vdf_iterations)

\* ProofOfHistory::execute_consensus; ms is the measured VDF duration
PoH_execute_consensus(poh, block, ms) ==
  LET history_output == PoH_create_history_proof(poh, block)
      sequence == poh.sequence_number + 1
      after == [poh EXCEPT !.sequence_number = sequence, !.previous_output = history_output]
      hash == Sha256(BlockFields(block) \o history_output \o ToString(sequence))
      stamped == [block EXCEPT !.hash = hash, !.nonce = sequence]
      proof_data == {<<"history_output", history_output>>,
                     <<"sequence_number", ToString(sequence)>>,
                     <<"vdf_iterations", ToString(poh.vdf_iterations)>>,
                     <<"vdf_duration_ms", ToString(ms)>>}
  IN ExecOk(after, stamped, proof_data, 100)

\* ProofOfHistory::validate_block
PoH_validate_block(poh, block) ==
  IF block.nonce = 0 THEN FALSE
  ELSE Sha256(BlockFields(block) \o "placeholder_history" \o ToString(block.nonce)) = block.hash

(***************************************************************************)
(* consensus/poet.rs                                                       *)
(***************************************************************************)
\* ProofOfElapsedTime::new
PoET_new(wait_time_config, node_id) ==
  [kind |-> "ProofOfElapsedTime", wait_time_config |-> wait_time_config,
   node_id |-> node_id, trusted_execution |-> TRUE]

\* the certificate of ProofOfElapsedTime::generate_wait_time
PoET_certificate(poet, block) ==
  Sha256(block.previous_hash \o poet.node_id \o ToString(block.index))

\* the wait of ProofOfElapsedTime::generate_wait_time, in ms:
\* (wait_time_config as f64 * multiplier) as u64, multiplier = 0.5 + 1.5 * draw
PoET_wait_time_ms(poet, block) ==
  (poet.wait_time_config * (DigestModulus + 3 * DrawOf(PoET_certificate(poet, block))))
    \div (2 * DigestModulus)

\* ProofOfElapsedTime::trusted_wait: the elapsed proof; clock is Utc::now() after the wait
PoET_trusted_wait(poet, wait_ms, clock) ==
  Sha256(poet.node_id \o ToString(wait_ms) \o ToString(clock))

\* ProofOfElapsedTime::execute_consensus
PoET_execute_consensus(poet, block, clock) ==
  IF ~poet.trusted_execution
  THEN ExecErr(poet, block, "Trusted execution environment required for PoET")
  ELSE LET wait_ms == PoET_wait_time_ms(poet, block)
           certificate == PoET_certificate(poet, block)
           elapsed_proof == PoET_trusted_wait(poet, wait_ms, clock)
           hash == Sha256(BlockFields(block) \o certificate \o elapsed_proof \o poet.node_id)
           stamped == [block EXCEPT !.hash = hash, !.nonce = wait_ms]
           proof_data == {<<"node_id", poet.node_id>>,
                          <<"wait_time_ms", ToString(wait_ms)>>,
                          <<"wait_certificate", certificate>>,
                          <<"elapsed_proof", elapsed_proof>>,
                          <<"trusted_execution", "true">>}
       IN ExecOk(poet, stamped, proof_data, 10)

\* ProofOfElapsedTime::validate_block
PoET_validate_block(poet, block) ==
  LET min_wait == poet.wait_time_config \div 2
      max_wait == poet.wait_time_config * 2
  IN IF block.nonce < min_wait \/ block.nonce > max_wait THEN FALSE
     ELSE HashLen(block.hash) = HashHexLen

(***************************************************************************)
(* consensus/pob.rs.  A mining power (f64) is the exact rational           *)
(* <<numerator, denominator>> in lowest terms; decay_factor is in          *)
(* hundredths (95 is 0.95).                                                *)
(***************************************************************************)
RECURSIVE Gcd(_, _)
Gcd(a, b) == IF b = 0 THEN a ELSE Gcd(b, a % b)

Ratio(num, den) == LET g == Gcd(num, den) IN IF num = 0 THEN <<0, 1>> ELSE <<num \div g, den \div g>>
RatioAdd(x, y) == Ratio(x[1] * y[2] + y[1] * x[2], x[2] * y[2])
\* f64::to_string of a power
RatioText(x) == ToString(x[1]) \o "/" \o ToString(x[2])

\* ProofOfBurn::new
PoB_new(burn_amount) ==
  [kind |-> "ProofOfBurn", burn_transactions |-> <<>>, burn_amount |-> burn_amount,
   decay_factor |-> 95, burn_address |-> "1111111111111111111114oLvT2"]

\* ProofOfBurn::add_burn_transaction
PoB_add_burn_transaction(pob, amount, timestamp) ==
  IF amount < pob.burn_amount
  THEN [ok |-> FALSE, alg |-> pob, error |-> "Burn amount is below minimum"]
  ELSE LET tx_hash == Sha256(ToString(amount) \o pob.burn_address \o ToString(timestamp))
       IN [ok |-> TRUE,
           alg |-> [pob EXCEPT !.burn_transactions =
                      Append(@, [amount |-> amount, burn_address |-> pob.burn_address,
                                 timestamp |-> timestamp, tx_hash |-> tx_hash])],
           error |-> ""]

\* amount as f64 * decay_factor.powf(age), age = index.saturating_sub(timestamp)
PoB_power(pob, burn_tx, index) ==
  LET age == IF index > burn_tx.timestamp THEN index - burn_tx.timestamp ELSE 0
  IN Ratio(burn_tx.amount * Pow(pob.decay_factor, age), Pow(100, age))

RECURSIVE PoB_cumulative(_, _, _)
\* the running sum of the powers of burn_transactions[1..i]
PoB_cumulative(pob, index, i) ==
  IF i = 0 THEN <<0, 1>>
  ELSE RatioAdd(PoB_cumulative(pob, index, i - 1), PoB_power(pob, pob.burn_transactions[i], index))

\* ProofOfBurn::calculate_mining_power
PoB_calculate_mining_power(pob, index) ==
  PoB_cumulative(pob, index, Len(pob.burn_transactions))

\* ProofOfBurn::select_miner: the position selected, 0 for None
PoB_select_miner(pob, block) ==
  LET n == Len(pob.burn_transactions)
      total == PoB_calculate_mining_power(pob, block.index)
      draw == DrawOf(Sha256(block.previous_hash))
      \* cumulative_power >= random_value, with random_value = draw / DigestModulus * total
      covers(i) == LET c == PoB_cumulative(pob, block.index, i)
                   IN c[1] * total[2] * DigestModulus >= draw * total[1] * c[2]
  IN IF n = 0 THEN 0
     ELSE IF total[1] = 0 THEN 0
     ELSE IF \E i \in 1..n : covers(i) THEN CHOOSE i \in 1..n : covers(i) /\ \A j \in 1..(i - 1) : ~covers(j)
     ELSE n

\* ProofOfBurn::create_burn_proof
PoB_create_burn_proof(block, selected_tx_hash, mining_power) ==
  Sha256(BlockFields(block) \o selected_tx_hash \o RatioText(mining_power))

RECURSIVE PoB_total_burned(_, _)
PoB_total_burned(txs, i) == IF i = 0 THEN 0 ELSE PoB_total_burned(txs, i - 1) + txs[i].amount

\* ProofOfBurn::execute_consensus
PoB_execute_consensus(pob, block) ==
  IF Len(pob.burn_transactions) = 0
  THEN ExecErr(pob, block, "No burn transactions available for mining")
  ELSE LET sel == PoB_select_miner(pob, block)
       IN IF sel = 0 THEN ExecErr(pob, block, "Unable to select miner")
          ELSE LET tx == pob.burn_transactions[sel]
                   mining_power == PoB_power(pob, tx, block.index)
                   burn_proof == PoB_create_burn_proof(block, tx.tx_hash, mining_power)
                   \* u64::from_str_radix(&tx_hash[..16], 16)
                   stamped == [block EXCEPT !.hash = burn_proof, !.nonce = LeadValue(tx.tx_hash)]
                   proof_data == {<<"selected_burn_tx", tx.tx_hash>>,
                                  <<"mining_power", RatioText(mining_power)>>,
                                  <<"total_burns", ToString(Len(pob.burn_transactions))>>,
                                  <<"decay_factor", ToString(pob.decay_factor) \o "/100">>,
                                  <<"burn_address", pob.burn_address>>,
                                  <<"total_burned",
                                    ToString(PoB_total_burned(pob.burn_transactions,
                                                              Len(pob.burn_transactions)))>>}
               IN ExecOk(pob, stamped, proof_data, 50)

\* ProofOfBurn::validate_block
PoB_validate_block(pob, block) ==
  LET \* burn_tx.tx_hash.starts_with(&format!("{:016x}", block.nonce))
      found == {i \in 1..Len(pob.burn_transactions) :
                  /\ block.nonce < DigestModulus
                  /\ SubSeq(pob.burn_transactions[i].tx_hash, 1, DigestDigits)
                       = RenderDigits(block.nonce, DigestDigits)}
  IN IF found = {} THEN FALSE
     ELSE LET first == CHOOSE i \in found : \A j \in found : i <= j
              mining_power == PoB_calculate_mining_power(pob, block.index)
          IN PoB_create_burn_proof(block, pob.burn_transactions[first].tx_hash, mining_power)
               = block.hash

(***************************************************************************)
(* consensus/poc.rs.  &hash[..8] is the modelled leading digits.           *)
(***************************************************************************)
\* ProofOfCapacity::new
PoC_new(storage_requirement) ==
  [kind |-> "ProofOfCapacity", plots |-> <<>>, storage_requirement |-> storage_requirement,
   plot_verification_samples |-> 10]

\* the table size create_plot stops at
PlotTableCap == 1000

\* ProofOfCapacity::create_plot; nonces are the rng.random::<u64>() draws, one
\* per table entry, and timestamp is chrono::Utc::now().timestamp()
PoC_create_plot(poc, size_gb, nonce_count, nonces, timestamp) ==
  IF size_gb < poc.storage_requirement
  THEN [ok |-> FALSE, alg |-> poc, plot_id |-> "",
        error |-> "Plot size " \o ToString(size_gb) \o " GB is below minimum "
                    \o ToString(poc.storage_requirement) \o " GB"]
  ELSE LET plot_id == "plot_" \o ToString(Len(poc.plots))
           entries == IF nonce_count < PlotTableCap THEN nonce_count ELSE PlotTableCap
           hash1(i) == Sha256(plot_id \o ToString(i) \o ToString(nonces[i + 1]))
           hash2(i) == Sha256(hash1(i) \o ToString(nonces[i + 1]))
           plot == [plot_id |-> plot_id, size_gb |-> size_gb, nonce_count |-> nonce_count,
                    creation_timestamp |-> timestamp,
                    hash_pairs |-> [k \in 1..entries |-> <<hash1(k - 1), hash2(k - 1)>>]]
       IN [ok |-> TRUE, alg |-> [poc EXCEPT !.plots = Append(@, plot)],
           plot_id |-> plot_id, error |-> ""]

LeadText(h) == SubSeq(h, 1, DigestDigits)

\* ProofOfCapacity::calculate_deadline_for_plot: <<found, deadline, hash1>>
PoC_calculate_deadline_for_plot(plot, block) ==
  LET \* hits: the positions whose pair starts with the target
      scan(hits) ==
        IF hits # {}
        THEN LET i == CHOOSE i \in hits : \A j \in hits : i <= j
                 hash1 == plot.hash_pairs[i][1]
             IN <<TRUE, i * 1000 + (LeadValue(hash1) % 10000), hash1>>
        ELSE IF Len(plot.hash_pairs) > 0
        THEN <<TRUE, LeadValue(plot.hash_pairs[1][1]) % 100000, plot.hash_pairs[1][1]>>
        ELSE <<FALSE, 0, "">>
      search(target) ==
        scan({i \in 1..Len(plot.hash_pairs) :
                LeadText(plot.hash_pairs[i][1]) = target \/ LeadText(plot.hash_pairs[i][2]) = target})
      \* generation_signature
  IN search(LeadText(Sha256(block.previous_hash \o ToString(block.index) \o plot.plot_id)))

\* ProofOfCapacity::find_best_deadline: the position of the winning plot, 0 for None
PoC_find_best_deadline(poc, block) ==
  LET \* d[i]: the deadline found in plot i
      best(d) ==
        LET cand == {i \in 1..Len(poc.plots) : d[i][1]}
        IN IF cand = {} THEN 0
           ELSE CHOOSE i \in cand :
                  \A j \in cand : d[i][2] < d[j][2] \/ (d[i][2] = d[j][2] /\ i <= j)
  IN best([i \in 1..Len(poc.plots) |-> PoC_calculate_deadline_for_plot(poc.plots[i], block)])

RECURSIVE PoC_capacity(_, _)
PoC_capacity(plots, i) == IF i = 0 THEN 0 ELSE PoC_capacity(plots, i - 1) + plots[i].size_gb

\* ProofOfCapacity::get_total_capacity
PoC_get_total_capacity(poc) == PoC_capacity(poc.plots, Len(poc.plots))

\* ProofOfCapacity::execute_consensus
PoC_execute_consensus(poc, block) ==
  LET \* the winning plot and the deadline found in it
      win(plot, d) ==
        ExecOk(poc,
               [block EXCEPT !.hash = Sha256(BlockFields(block) \o plot.plot_id \o d[3]),
                             !.nonce = d[2]],
               {<<"winning_plot", plot.plot_id>>,
                <<"deadline", ToString(d[2])>>,
                <<"winning_hash", d[3]>>,
                <<"total_capacity_gb", ToString(PoC_get_total_capacity(poc))>>,
                <<"total_plots", ToString(Len(poc.plots))>>,
                <<"plot_size_gb", ToString(plot.size_gb)>>,
                <<"plot_nonce_count", ToString(plot.nonce_count)>>},
               100)
      mine(best) ==
        IF best = 0 THEN ExecErr(poc, block, "Unable to find valid deadline in any plot")
        ELSE win(poc.plots[best], PoC_calculate_deadline_for_plot(poc.plots[best], block))
  IN IF Len(poc.plots) = 0 THEN ExecErr(poc, block, "No storage plots available for mining")
     ELSE IF PoC_get_total_capacity(poc) < poc.storage_requirement
     THEN ExecErr(poc, block, "Total capacity is below requirement")
     ELSE mine(PoC_find_best_deadline(poc, block))

\* ProofOfCapacity::verify_plot_capacity; sampled is the set of (0-based) table
\* indices the random sampling draws
PoC_verify_plot_capacity(poc, plot, sampled) ==
  IF plot.size_gb < poc.storage_requirement THEN FALSE
  ELSE IF Len(plot.hash_pairs) = 0 THEN FALSE
  ELSE \A index \in sampled :
         /\ HashLen(plot.hash_pairs[index + 1][1]) = HashHexLen
         /\ HashLen(plot.hash_pairs[index + 1][2]) = HashHexLen
         /\ Sha256(plot.hash_pairs[index + 1][1] \o ToString(index)) = plot.hash_pairs[index + 1][2]

\* ProofOfCapacity::validate_block; sampled[i] is what the sampling draws for plot i
PoC_validate_block(poc, block, sampled) ==
  LET ok(i) == /\ PoC_verify_plot_capacity(poc, poc.plots[i], sampled[i])
               /\ PoC_calculate_deadline_for_plot(poc.plots[i], block)[1]
               /\ PoC_calculate_deadline_for_plot(poc.plots[i], block)[2] = block.nonce
      found == {i \in 1..Len(poc.plots) : ok(i)}
  IN IF found = {} THEN FALSE
     ELSE LET first == CHOOSE i \in found : \A j \in found : i <= j
              plot == poc.plots[first]
          IN Sha256(BlockFields(block) \o plot.plot_id
                      \o PoC_calculate_deadline_for_plot(plot, block)[3]) = block.hash

(***************************************************************************)
(* consensus/pbft.rs.  fault_tolerance is in hundredths (30 is 0.3) and a  *)
(* node's reputation in tenths (10 is 1.0, 1 is 0.1).  Node i of the       *)
(* program (0-based) is nodes[i + 1].                                      *)
(***************************************************************************)
\* a variant of new that starts with a round already counted
PBFT_new_started(node_count, fault_tolerance) ==
  [kind |-> "PracticalByzantineFaultTolerance",
   nodes |-> [i \in 1..node_count |->
                [node_id |-> "node_" \o ToString(i - 1), is_primary |-> (i = 1),
                 is_faulty |-> FALSE, reputation |-> 10]],
   node_count |-> node_count, fault_tolerance |-> fault_tolerance,
   current_view |-> 0, current_sequence |-> 1, message_log |-> <<>>]

\* PracticalByzantineFaultTolerance::new
PBFT_new(node_count, fault_tolerance) ==
  [kind |-> "PracticalByzantineFaultTolerance",
   nodes |-> [i \in 1..node_count |->
                [node_id |-> "node_" \o ToString(i - 1), is_primary |-> (i = 1),
                 is_faulty |-> FALSE, reputation |-> 10]],
   node_count |-> node_count, fault_tolerance |-> fault_tolerance,
   current_view |-> 0, current_sequence |-> 0, message_log |-> <<>>]

\* a variant of the limit that rounds up instead of down
PBFT_max_faulty_ceil(pbft) == (pbft.node_count * pbft.fault_tolerance + 99) \div 100

\* (node_count as f32 * fault_tolerance).floor() as usize
PBFT_max_faulty(pbft) == (pbft.node_count * pbft.fault_tolerance) \div 100

\* PracticalByzantineFaultTolerance::set_faulty_nodes; the argument is a
\* sequence of 0-based node indices
PBFT_set_faulty_nodes(pbft, faulty_node_indices) ==
  LET max_faulty == PBFT_max_faulty(pbft)
      listed(i) == \E k \in 1..Len(faulty_node_indices) :
                      faulty_node_indices[k] = i - 1 /\ faulty_node_indices[k] < pbft.node_count
  IN IF Len(faulty_node_indices) > max_faulty
     THEN [ok |-> FALSE, alg |-> pbft,
           error |-> "Too many faulty nodes: " \o ToString(Len(faulty_node_indices))
                       \o " > " \o ToString(max_faulty)]
     ELSE [ok |-> TRUE,
           alg |-> [pbft EXCEPT !.nodes =
                      [i \in 1..Len(pbft.nodes) |->
                         IF listed(i)
                         THEN [pbft.nodes[i] EXCEPT !.is_faulty = TRUE, !.reputation = 1]
                         ELSE [pbft.nodes[i] EXCEPT !.is_faulty = FALSE]]],
           error |-> ""]

\* get_primary_node that looks at the primary flag only
PBFT_get_primary_node_flagged(pbft) ==
  LET found == {i \in 1..Len(pbft.nodes) : pbft.nodes[i].is_primary}
  IN IF found = {} THEN 0 ELSE CHOOSE i \in found : \A j \in found : i <= j

\* PracticalByzantineFaultTolerance::get_primary_node: the position, 0 for None
PBFT_get_primary_node(pbft) ==
  LET found == {i \in 1..Len(pbft.nodes) : pbft.nodes[i].is_primary /\ ~pbft.nodes[i].is_faulty}
  IN IF found = {} THEN 0 ELSE CHOOSE i \in found : \A j \in found : i <= j

\* PracticalByzantineFaultTolerance::get_honest_nodes: the positions, in order
PBFT_get_honest_nodes(pbft) == {i \in 1..Len(pbft.nodes) : ~pbft.nodes[i].is_faulty}

\* PracticalByzantineFaultTolerance::sign_message
PBFT_sign_message(pbft, msg_type, block, node_id) ==
  Sha256(msg_type \o ToString(pbft.current_view) \o ToString(pbft.current_sequence)
           \o block.hash \o node_id \o ToString(block.timestamp))

\* PracticalByzantineFaultTolerance::create_message
PBFT_create_message(pbft, msg_type, block, node_id) ==
  [message_type |-> msg_type, view |-> pbft.current_view, sequence |-> pbft.current_sequence,
   block_hash |-> block.hash, node_id |-> node_id,
   signature |-> PBFT_sign_message(pbft, msg_type, block, node_id)]

\* a variant of verify_message that only accepts messages of the first view
PBFT_verify_message_first_view(pbft, message, block) ==
  /\ PBFT_sign_message(pbft, message.message_type, block, message.node_id) = message.signature
  /\ message.view = 0
  /\ message.sequence = pbft.current_sequence

\* PracticalByzantineFaultTolerance::verify_message
PBFT_verify_message(pbft, message, block) ==
  /\ PBFT_sign_message(pbft, message.message_type, block, message.node_id) = message.signature
  /\ message.view = pbft.current_view
  /\ message.sequence = pbft.current_sequence

RECURSIVE PBFT_votes_with_primary(_, _, _, _, _)
\* a voting loop in which the primary casts a Prepare vote as well
PBFT_votes_with_primary(pbft, msg_type, block, i, log) ==
  IF i > Len(pbft.nodes) THEN log
  ELSE LET node == pbft.nodes[i]
           msg == PBFT_create_message(pbft, msg_type, block, node.node_id)
       IN PBFT_votes_with_primary(pbft, msg_type, block, i + 1,
                                  IF ~node.is_faulty /\ PBFT_verify_message(pbft, msg, block)
                                  THEN Append(log, msg) ELSE log)

RECURSIVE PBFT_votes(_, _, _, _, _)
\* one voting loop over the honest nodes at positions i..Len(nodes): appends
\* the verified messages of the voters to the log
PBFT_votes(pbft, msg_type, block, i, log) ==
  IF i > Len(pbft.nodes) THEN log
  ELSE LET node == pbft.nodes[i]
           votes == /\ ~node.is_faulty
                    /\ (msg_type = "Prepare" => ~node.is_primary)
           msg == PBFT_create_message(pbft, msg_type, block, node.node_id)
       IN PBFT_votes(pbft, msg_type, block, i + 1,
                     IF votes /\ PBFT_verify_message(pbft, msg, block) THEN Append(log, msg) ELSE log)

\* execute_pbft_consensus that goes on to the commit phase whatever the
\* number of prepare votes
PBFT_execute_pbft_consensus_no_prepare_check(pbft, block) ==
  LET honest == Cardinality(PBFT_get_honest_nodes(pbft))
      required_votes == (honest * 2) \div 3 + 1
      primary == PBFT_get_primary_node(pbft)
      decide(log2, log3) ==
        [err |-> FALSE, reached |-> Len(log3) - Len(log2) >= required_votes,
         alg |-> [pbft EXCEPT !.message_log = log3]]
      commit(log2) == decide(log2, PBFT_votes(pbft, "Commit", block, 1, log2))
      prepare(log1) == commit(PBFT_votes(pbft, "Prepare", block, 1, log1))
  IN IF primary = 0 THEN [err |-> TRUE, reached |-> FALSE, alg |-> pbft]
     ELSE prepare(Append(pbft.message_log,
                         PBFT_create_message(pbft, "PrePrepare", block,
                                             pbft.nodes[primary].node_id)))

\* a variant of execute_pbft_consensus that asks for a vote more than there are honest nodes
PBFT_execute_pbft_consensus_one_more(pbft, block) ==
  LET honest == Cardinality(PBFT_get_honest_nodes(pbft))
      required_votes == honest + 1
      primary == PBFT_get_primary_node(pbft)
      decide(log1, log2, log3) ==
        IF Len(log2) - Len(log1) < required_votes - 1
        THEN [err |-> FALSE, reached |-> FALSE, alg |-> [pbft EXCEPT !.message_log = log2]]
        ELSE [err |-> FALSE, reached |-> Len(log3) - Len(log2) >= required_votes,
              alg |-> [pbft EXCEPT !.message_log = log3]]
      commit(log1, log2) == decide(log1, log2, PBFT_votes(pbft, "Commit", block, 1, log2))
      prepare(log1) == commit(log1, PBFT_votes(pbft, "Prepare", block, 1, log1))
  IN IF primary = 0 THEN [err |-> TRUE, reached |-> FALSE, alg |-> pbft]
     ELSE prepare(Append(pbft.message_log,
                         PBFT_create_message(pbft, "PrePrepare", block,
                                             pbft.nodes[primary].node_id)))

\* PracticalByzantineFaultTolerance::execute_pbft_consensus:
\* [err, reached, alg]; err is Err("No primary node available")
PBFT_execute_pbft_consensus(pbft, block) ==
  LET honest == Cardinality(PBFT_get_honest_nodes(pbft))
      required_votes == (honest * 2) \div 3 + 1
      primary == PBFT_get_primary_node(pbft)
      \* the logs after the pre-prepare, the prepare loop and the commit loop
      decide(log1, log2, log3) ==
        IF Len(log2) - Len(log1) < required_votes - 1
        THEN [err |-> FALSE, reached |-> FALSE, alg |-> [pbft EXCEPT !.message_log = log2]]
        ELSE [err |-> FALSE, reached |-> Len(log3) - Len(log2) >= required_votes,
              alg |-> [pbft EXCEPT !.message_log = log3]]
      commit(log1, log2) == decide(log1, log2, PBFT_votes(pbft, "Commit", block, 1, log2))
      prepare(log1) == commit(log1, PBFT_votes(pbft, "Prepare", block, 1, log1))
  IN IF primary = 0 THEN [err |-> TRUE, reached |-> FALSE, alg |-> pbft]
     ELSE prepare(Append(pbft.message_log,
                         PBFT_create_message(pbft, "PrePrepare", block,
                                             pbft.nodes[primary].node_id)))

\* rotate_primary that hands the flag to the next node in the list, faulty or not
PBFT_rotate_primary_next_in_list(pbft) ==
  LET n == pbft.node_count
      primaries == {i \in 1..Len(pbft.nodes) : pbft.nodes[i].is_primary}
      current_primary_idx == IF primaries = {} THEN 0
                             ELSE (CHOOSE i \in primaries : \A j \in primaries : i <= j) - 1
      chosen == (current_primary_idx + 1) % n
  IN [pbft EXCEPT !.nodes = [i \in 1..Len(pbft.nodes) |->
                               [pbft.nodes[i] EXCEPT !.is_primary =
                                  IF i - 1 = chosen THEN TRUE
                                  ELSE IF i - 1 = current_primary_idx THEN FALSE ELSE @]],
                  !.current_view = @ + 1]

\* rotate_primary without the view change: the primary moves on, current_view stays
PBFT_rotate_primary_same_view(pbft) ==
  LET n == pbft.node_count
      primaries == {i \in 1..Len(pbft.nodes) : pbft.nodes[i].is_primary}
      current_primary_idx == IF primaries = {} THEN 0
                             ELSE (CHOOSE i \in primaries : \A j \in primaries : i <= j) - 1
      next_idx(i) == (current_primary_idx + i) % n
      eligible == {i \in 1..n : next_idx(i) < Len(pbft.nodes) /\ ~pbft.nodes[next_idx(i) + 1].is_faulty}
      chosen == IF eligible = {} THEN -1
                ELSE next_idx(CHOOSE i \in eligible : \A j \in eligible : i <= j)
  IN [pbft EXCEPT !.nodes = [i \in 1..Len(pbft.nodes) |->
                               [pbft.nodes[i] EXCEPT !.is_primary =
                                  IF i - 1 = chosen THEN TRUE
                                  ELSE IF i - 1 = current_primary_idx THEN FALSE ELSE @]]]

\* PracticalByzantineFaultTolerance::rotate_primary
PBFT_rotate_primary(pbft) ==
  LET n == pbft.node_count
      primaries == {i \in 1..Len(pbft.nodes) : pbft.nodes[i].is_primary}
      \* 0-based, unwrap_or(0)
      current_primary_idx == IF primaries = {} THEN 0
                             ELSE (CHOOSE i \in primaries : \A j \in primaries : i <= j) - 1
      next_idx(i) == (current_primary_idx + i) % n
      eligible == {i \in 1..n : next_idx(i) < Len(pbft.nodes) /\ ~pbft.nodes[next_idx(i) + 1].is_faulty}
      chosen == IF eligible = {} THEN -1
                ELSE next_idx(CHOOSE i \in eligible : \A j \in eligible : i <= j)
  IN [pbft EXCEPT !.nodes = [i \in 1..Len(pbft.nodes) |->
                               [pbft.nodes[i] EXCEPT !.is_primary =
                                  IF i - 1 = chosen THEN TRUE
                                  ELSE IF i - 1 = current_primary_idx THEN FALSE ELSE @]],
                  !.current_view = @ + 1]

\* PracticalByzantineFaultTolerance::calculate_consensus_metrics
PBFT_calculate_consensus_metrics(pbft) ==
  LET honest_count == Cardinality({i \in 1..Len(pbft.nodes) : ~pbft.nodes[i].is_faulty})
      faulty_count == Cardinality({i \in 1..Len(pbft.nodes) : pbft.nodes[i].is_faulty})
  IN <<honest_count, faulty_count, Ratio(faulty_count * 100, pbft.node_count)>>

\* the digest of a pBFT block: the block fields, a view, a sequence, the honest count
PBFT_block_hash(block, view, sequence, honest) ==
  Sha256(BlockFields(block) \o ToString(view) \o ToString(sequence) \o ToString(honest))

\* a variant of execute_consensus that changes the view when no honest node is primary
PBFT_execute_consensus_view_change(pbft, block) ==
  LET honest == Cardinality(PBFT_get_honest_nodes(pbft))
      required_honest == (pbft.node_count * 2) \div 3 + 1
      proof(after, metrics, primary) ==
        {<<"consensus_view", ToString(after.current_view)>>,
         <<"sequence_number", ToString(after.current_sequence - 1)>>,
         <<"total_nodes", ToString(after.node_count)>>,
         <<"honest_nodes", ToString(metrics[1])>>,
         <<"faulty_nodes", ToString(metrics[2])>>,
         <<"fault_percentage", RatioText(metrics[3])>>,
         <<"messages_processed", ToString(Len(after.message_log))>>}
        \cup (IF primary = 0 THEN {}
              ELSE {<<"primary_node", after.nodes[primary].node_id>>})
      \* the block as hashed, the instance after the sequence bump and rotation
      finish(final, after) ==
        ExecOk(after, final,
               proof(after, PBFT_calculate_consensus_metrics(after),
                     PBFT_get_primary_node(after)),
               200)
      rotate(final, counted) ==
        finish(final, IF counted.current_sequence % RotationPeriod = 0
                      THEN PBFT_rotate_primary(counted) ELSE counted)
      stamp(voted) ==
        rotate([block EXCEPT
                  !.hash = PBFT_block_hash(block, voted.current_view,
                                           voted.current_sequence, honest),
                  !.nonce = voted.current_sequence],
               [voted EXCEPT !.current_sequence = @ + 1])
      decide(round) ==
        IF round.err
        THEN ExecErr(PBFT_rotate_primary(round.alg), block, "No primary node available")
        ELSE IF ~round.reached THEN ExecErr(round.alg, block, "pBFT consensus not reached")
        ELSE stamp(round.alg)
  IN IF Len(pbft.nodes) = 0 THEN ExecErr(pbft, block, "No nodes available for pBFT consensus")
     ELSE IF honest < required_honest
     THEN ExecErr(pbft, block, "Insufficient honest nodes: " \o ToString(honest)
                                 \o " < " \o ToString(required_honest))
     ELSE decide(PBFT_execute_pbft_consensus(pbft, block))

\* PracticalByzantineFaultTolerance::execute_consensus
PBFT_execute_consensus(pbft, block) ==
  LET honest == Cardinality(PBFT_get_honest_nodes(pbft))
      required_honest == (pbft.node_count * 2) \div 3 + 1
      proof(after, metrics, primary) ==
        {<<"consensus_view", ToString(after.current_view)>>,
         <<"sequence_number", ToString(after.current_sequence - 1)>>,
         <<"total_nodes", ToString(after.node_count)>>,
         <<"honest_nodes", ToString(metrics[1])>>,
         <<"faulty_nodes", ToString(metrics[2])>>,
         <<"fault_percentage", RatioText(metrics[3])>>,
         <<"messages_processed", ToString(Len(after.message_log))>>}
        \cup (IF primary = 0 THEN {}
              ELSE {<<"primary_node", after.nodes[primary].node_id>>})
      \* the block as hashed, the instance after the sequence bump and rotation
      finish(final, after) ==
        ExecOk(after, final,
               proof(after, PBFT_calculate_consensus_metrics(after),
                     PBFT_get_primary_node(after)),
               200)
      rotate(final, counted) ==
        finish(final, IF counted.current_sequence % RotationPeriod = 0
                      THEN PBFT_rotate_primary(counted) ELSE counted)
      stamp(voted) ==
        rotate([block EXCEPT
                  !.hash = PBFT_block_hash(block, voted.current_view,
                                           voted.current_sequence, honest),
                  !.nonce = voted.current_sequence],
               [voted EXCEPT !.current_sequence = @ + 1])
      decide(round) ==
        IF round.err THEN ExecErr(round.alg, block, "No primary node available")
        ELSE IF ~round.reached THEN ExecErr(round.alg, block, "pBFT consensus not reached")
        ELSE stamp(round.alg)
  IN IF Len(pbft.nodes) = 0 THEN ExecErr(pbft, block, "No nodes available for pBFT consensus")
     ELSE IF honest < required_honest
     THEN ExecErr(pbft, block, "Insufficient honest nodes: " \o ToString(honest)
                                 \o " < " \o ToString(required_honest))
     ELSE decide(PBFT_execute_pbft_consensus(pbft, block))

\* PracticalByzantineFaultTolerance::validate_block
PBFT_validate_block(pbft, block) ==
  IF block.nonce = 0 /\ pbft.current_sequence > 1 THEN FALSE
  ELSE PBFT_block_hash(block, pbft.current_view, block.nonce,
                       Cardinality(PBFT_get_honest_nodes(pbft))) = block.hash

\* an entry of ConsensusConfig::additional_params: absent, present but
\* unparsable, or present with a value
ParamAbsent == [given |-> FALSE, valid |-> FALSE, value |-> 0]
ParamInvalid == [given |-> TRUE, valid |-> FALSE, value |-> 0]
ParamValue(v) == [given |-> TRUE, valid |-> TRUE, value |-> v]

\* PracticalByzantineFaultTolerance::configure; fault_tolerance in hundredths
PBFT_configure(pbft, node_count, fault_tolerance) ==
  LET recreated ==
        IF node_count.given /\ node_count.valid /\ node_count.value # pbft.node_count
        THEN [pbft EXCEPT
                !.nodes = [i \in 1..node_count.value |->
                             [node_id |-> "node_" \o ToString(i - 1), is_primary |-> (i = 1),
                              is_faulty |-> FALSE, reputation |-> 10]],
                !.node_count = node_count.value]
        ELSE pbft
  IN IF node_count.given /\ ~node_count.valid
     THEN [ok |-> FALSE, alg |-> pbft, error |-> "Invalid node_count parameter"]
     ELSE IF fault_tolerance.given /\ ~fault_tolerance.valid
     THEN [ok |-> FALSE, alg |-> recreated, error |-> "Invalid fault_tolerance parameter"]
     ELSE IF fault_tolerance.given
     THEN [ok |-> TRUE, alg |-> [recreated EXCEPT !.fault_tolerance = fault_tolerance.value],
           error |-> ""]
     ELSE [ok |-> TRUE, alg |-> recreated, error |-> ""]

\* ProofOfStake::configure; slashing_rate in hundredths.  A parameter that
\* fails to parse returns the error before its field is assigned.
PoS_configure(pos, minimum_stake, slashing_rate) ==
  LET staked == IF minimum_stake.given /\ minimum_stake.valid
                THEN [pos EXCEPT !.minimum_stake = minimum_stake.value]
                ELSE pos
  IN IF minimum_stake.given /\ ~minimum_stake.valid
     THEN [ok |-> FALSE, alg |-> pos, error |-> "Invalid minimum_stake parameter"]
     ELSE IF slashing_rate.given /\ ~slashing_rate.valid
     THEN [ok |-> FALSE, alg |-> staked, error |-> "Invalid slashing_rate parameter"]
     ELSE IF slashing_rate.given
     THEN [ok |-> TRUE, alg |-> [staked EXCEPT !.slashing_rate = slashing_rate.value],
           error |-> ""]
     ELSE [ok |-> TRUE, alg |-> staked, error |-> ""]

\* ProofOfBurn::configure; decay_factor in hundredths; burn_address is a
\* string parameter, taken as given (value "" for absent)
PoB_configure(pob, burn_amount, decay_factor, burn_address) ==
  LET amounted == IF burn_amount.given /\ burn_amount.valid
                  THEN [pob EXCEPT !.burn_amount = burn_amount.value]
                  ELSE pob
      decayed == IF decay_factor.given /\ decay_factor.valid
                 THEN [amounted EXCEPT !.decay_factor = decay_factor.value]
                 ELSE amounted
      addressed == IF burn_address # ""
                   THEN [decayed EXCEPT !.burn_address = burn_address]
                   ELSE decayed
  IN IF burn_amount.given /\ ~burn_amount.valid
     THEN [ok |-> FALSE, alg |-> pob, error |-> "Invalid burn_amount parameter"]
     ELSE IF decay_factor.given /\ ~decay_factor.valid
     THEN [ok |-> FALSE, alg |-> amounted, error |-> "Invalid decay_factor parameter"]
     ELSE [ok |-> TRUE, alg |-> addressed, error |-> ""]

(***************************************************************************)
(* consensus/mod.rs: ConsensusType and ConsensusFactory.                   *)
(***************************************************************************)
\* ConsensusType::default()
DefaultConsensusType == [kind |-> "ProofOfWork", difficulty |-> DefaultPowDifficulty]

\* the ConsensusType values the engine is created with and switched to
Kinds ==
  {DefaultConsensusType,
   [kind |-> "ProofOfStake", minimum_stake |-> 1000],
   [kind |-> "ProofOfHistory", vdf_iterations |-> 2],
   [kind |-> "ProofOfAuthority", validators |-> <<"a", "b">>],
   [kind |-> "ProofOfElapsedTime", wait_time_config |-> 1],
   [kind |-> "ProofOfBurn", burn_amount |-> 100],
   [kind |-> "ProofOfCapacity", storage_requirement |-> 1],
   [kind |-> "PracticalByzantineFaultTolerance", node_count |-> 4, fault_tolerance |-> 25]}

\* values of rand::random::<u32>() in the factory
NodeRands == {1, 2}

\* the factory draws a random number only for ProofOfElapsedTime
FactoryRands(consensus_type) ==
  IF consensus_type.kind = "ProofOfElapsedTime" THEN NodeRands ELSE {0}

\* ConsensusFactory::create_consensus; rand is the value of rand::random::<u32>()
create_consensus(consensus_type, rand) ==
  CASE consensus_type.kind = "ProofOfWork" -> PoW_new(consensus_type.difficulty)
    [] consensus_type.kind = "ProofOfStake" -> PoS_new(consensus_type.minimum_stake)
    [] consensus_type.kind = "ProofOfHistory" -> PoH_new(consensus_type.vdf_iterations)
    [] consensus_type.kind = "ProofOfAuthority" -> PoA_new(consensus_type.validators)
    [] consensus_type.kind = "ProofOfElapsedTime" ->
         PoET_new(consensus_type.wait_time_config, "node_" \o ToString(rand))
    [] consensus_type.kind = "ProofOfBurn" -> PoB_new(consensus_type.burn_amount)
    [] consensus_type.kind = "ProofOfCapacity" -> PoC_new(consensus_type.storage_requirement)
    [] consensus_type.kind = "PracticalByzantineFaultTolerance" ->
         PBFT_new(consensus_type.node_count, consensus_type.fault_tolerance)

(***************************************************************************)
(* consensus/traits.rs: dynamic dispatch on Box<dyn ConsensusAlgorithm>.   *)
(* ms is the duration the History algorithm measures for its VDF, clock    *)
(* the wall clock the ElapsedTime algorithm reads after its wait.          *)
(***************************************************************************)
\* ConsensusAlgorithm::execute_consensus
execute_consensus(alg, block, ms, clock) ==
  CASE alg.kind = "ProofOfWork" -> PoW_execute_consensus(alg, block)
    [] alg.kind = "ProofOfStake" -> PoS_execute_consensus(alg, block)
    [] alg.kind = "ProofOfHistory" -> PoH_execute_consensus(alg, block, ms)
    [] alg.kind = "ProofOfAuthority" -> PoA_execute_consensus(alg, block)
    [] alg.kind = "ProofOfElapsedTime" -> PoET_execute_consensus(alg, block, clock)
    [] alg.kind = "ProofOfBurn" -> PoB_execute_consensus(alg, block)
    [] alg.kind = "ProofOfCapacity" -> PoC_execute_consensus(alg, block)
    [] alg.kind = "PracticalByzantineFaultTolerance" -> PBFT_execute_consensus(alg, block)

\* what the random sampling of ProofOfCapacity::verify_plot_capacity can draw:
\* for every plot a non-empty set of indices of its table
SampleChoices(alg) ==
  IF alg.kind = "ProofOfCapacity"
  THEN LET n == Len(alg.plots)
           longest == IF n = 0 THEN 0
                      ELSE CHOOSE m \in {Len(alg.plots[i].hash_pairs) : i \in 1..n} :
                             \A i \in 1..n : Len(alg.plots[i].hash_pairs) <= m
       IN {f \in [1..n -> SUBSET (0..(longest - 1))] :
             \A i \in 1..n :
               \/ Len(alg.plots[i].hash_pairs) = 0
               \/ f[i] # {} /\ f[i] \subseteq 0..(Len(alg.plots[i].hash_pairs) - 1)}
  ELSE {<<>>}

\* ConsensusAlgorithm::validate_block
validate_block(alg, block, sampled) ==
  CASE alg.kind = "ProofOfWork" -> PoW_validate_block(alg, block)
    [] alg.kind = "ProofOfStake" -> PoS_validate_block(alg, block)
    [] alg.kind = "ProofOfHistory" -> PoH_validate_block(alg, block)
    [] alg.kind = "ProofOfAuthority" -> PoA_validate_block(alg, block)
    [] alg.kind = "ProofOfElapsedTime" -> PoET_validate_block(alg, block)
    [] alg.kind = "ProofOfBurn" -> PoB_validate_block(alg, block)
    [] alg.kind = "ProofOfCapacity" -> PoC_validate_block(alg, block, sampled)
    [] alg.kind = "PracticalByzantineFaultTolerance" -> PBFT_validate_block(alg, block)

(***************************************************************************)
(* blockchain.rs: the engine.                                              *)
(***************************************************************************)
VARIABLES
  blocks,               \* Blockchain::blocks
  consensus_type,       \* Blockchain::consensus_type
  consensus_stats,      \* Blockchain::consensus_stats
  consensus_algorithm,  \* Blockchain::consensus_algorithm; the instance under test
  now,                  \* the wall clock, in seconds (Utc::now().timestamp())
  hist,                 \* history: the operations performed so far
  out                   \* the outcome of the last call on a bare algorithm instance

vars == <<blocks, consensus_type, consensus_stats, consensus_algorithm, now, hist, out>>

\* BlockchainStats::default(); average_block_time is an exact ratio and
\* energy_consumption is in units of 0.0001
StatsDefault ==
  [total_blocks |-> 0, total_mining_time |-> 0, average_block_time |-> <<0, 1>>,
   energy_consumption |-> 0, consensus_failures |-> 0]

\* a variant of update_stats that leaves the block count alone
update_stats_uncounted(stats, result, duration) ==
  LET total_mining_time == stats.total_mining_time + duration
  IN [stats EXCEPT !.total_mining_time = total_mining_time,
                   !.average_block_time = Ratio(total_mining_time, stats.total_blocks),
                   !.energy_consumption = @ + result.energy_cost]

\* Blockchain::update_stats
update_stats(stats, result, duration) ==
  LET total_blocks == stats.total_blocks + 1
      total_mining_time == stats.total_mining_time + duration
  IN [stats EXCEPT !.total_blocks = total_blocks,
                   !.total_mining_time = total_mining_time,
                   !.average_block_time = Ratio(total_mining_time, total_blocks),
                   !.energy_consumption = @ + result.energy_cost]

\* a variant of is_valid that checks the links only
is_valid_links_only(chain, alg, sampled) ==
  \A i \in 2..Len(chain) : chain[i].previous_hash = chain[i - 1].hash

\* a variant of is_valid that also validates the genesis block
is_valid_from_genesis(chain, alg, sampled) ==
  /\ \A i \in 2..Len(chain) : chain[i].previous_hash = chain[i - 1].hash
  /\ \A i \in 1..Len(chain) : validate_block(alg, chain[i], sampled)

\* a variant of is_valid that looks at the last block only
is_valid_last_only(chain, alg, sampled) ==
  Len(chain) >= 2 =>
    /\ chain[Len(chain)].previous_hash = chain[Len(chain) - 1].hash
    /\ validate_block(alg, chain[Len(chain)], sampled)

\* Blockchain::is_valid
is_valid(chain, alg, sampled) ==
  \A i \in 2..Len(chain) :
    /\ chain[i].previous_hash = chain[i - 1].hash
    /\ validate_block(alg, chain[i], sampled)

\* the durations the History algorithm can measure for its VDF, out of a set
VdfDurations(alg, candidates) ==
  IF alg.kind = "ProofOfHistory" THEN candidates ELSE {0}

\* the clock readings of the ElapsedTime algorithm in a call that started at t
Clocks(alg, t) == IF alg.kind = "ProofOfElapsedTime" THEN t..MaxTime ELSE {t}

\* an entry of the history
Did(op, ok, type) == [op |-> op, ok |-> ok, type |-> type]

\* nothing has been called on a bare instance
NoOutcome == [op |-> "none"]

\* a variant of new_with_consensus that finalizes the genesis block on the
\* engine's own instance
new_with_consensus_shared(new_type, t, r1, r2, ms, clock) ==
  LET algorithm == create_consensus(new_type, r1)
      genesis_block == BlockNew(0, "Genesis Block", "0", t)
      built(result) ==
        [ok |-> TRUE, returns |-> result.returns,
         blocks |-> <<IF result.ok THEN set_consensus_data(result.block, result.proof_data)
                      ELSE result.block>>,
         consensus_type |-> new_type,
         consensus_stats |-> [StatsDefault EXCEPT !.total_blocks = 1],
         consensus_algorithm |-> result.alg]
  IN built(execute_consensus(algorithm, genesis_block, ms, clock))

\* Blockchain::new_with_consensus: the engine built, as a record of its fields.
\* t is the clock read by Block::new, r1 and r2 the factory's random numbers
\* for the engine's instance and for the genesis instance, ms and clock what
\* the genesis proof measures and reads.
new_with_consensus(new_type, t, r1, r2, ms, clock) ==
  LET algorithm == create_consensus(new_type, r1)
      genesis_consensus == create_consensus(new_type, r2)
      genesis_block == BlockNew(0, "Genesis Block", "0", t)
      built(result) ==
        [ok |-> TRUE, returns |-> result.returns,
         blocks |-> <<IF result.ok THEN set_consensus_data(result.block, result.proof_data)
                      ELSE result.block>>,
         consensus_type |-> new_type,
         consensus_stats |-> [StatsDefault EXCEPT !.total_blocks = 1],
         consensus_algorithm |-> algorithm]
  IN built(execute_consensus(genesis_consensus, genesis_block, ms, clock))

\* the inputs of new_with_consensus: <<t, r1, r2, ms, clock>>
NewInputs(new_type) ==
  {<<0, r1, r2, ms, clock>> :
     r1 \in FactoryRands(new_type), r2 \in FactoryRands(new_type),
     ms \in (IF new_type.kind = "ProofOfHistory" THEN Durations ELSE {0}),
     clock \in (IF new_type.kind = "ProofOfElapsedTime" THEN 0..MaxTime ELSE {0})}

Init ==
  \E new_type \in Kinds :
    \E in \in NewInputs(new_type) :
      \E engine \in {new_with_consensus(new_type, in[1], in[2], in[3], in[4], in[5])} :
        /\ engine.returns
        /\ blocks = engine.blocks
        /\ consensus_type = engine.consensus_type
        /\ consensus_stats = engine.consensus_stats
        /\ consensus_algorithm = engine.consensus_algorithm
        /\ now = in[5]
        /\ hist = <<Did("new_with_consensus", engine.ok, new_type)>>
        /\ out = NoOutcome

\* switch_consensus calls the engine is driven through
MaxSwitches == 1

Switches == Cardinality({i \in 1..Len(hist) : hist[i].op = "switch_consensus"})

\* Blockchain::switch_consensus
SwitchConsensus(new_type) ==
  /\ Switches < MaxSwitches
  /\ \E rand \in FactoryRands(new_type) :
       consensus_algorithm' = create_consensus(new_type, rand)
  /\ consensus_type' = new_type
  /\ hist' = Append(hist, Did("switch_consensus", TRUE, new_type))
  /\ UNCHANGED <<blocks, consensus_stats, now, out>>

\* a variant of the Err arm that loses the failure
record_failure_lost(stats) == stats

\* the Err arm of Blockchain::add_block
record_failure(stats) == [stats EXCEPT !.consensus_failures = @ + 1]

\* Blockchain::add_block; duration is start.elapsed() in ms
AddBlock(data, duration) ==
  /\ Len(blocks) > 0
  /\ \E t \in now..MaxTime :
       LET previous_hash == blocks[Len(blocks)].hash
           new_block == BlockNew(Len(blocks), data, previous_hash, t)
       IN \E ms \in VdfDurations(consensus_algorithm, {d \in Durations : d <= duration}),
             clock \in Clocks(consensus_algorithm, t) :
            \E result \in {execute_consensus(consensus_algorithm, new_block, ms, clock)} :
               /\ result.returns
               /\ consensus_algorithm' = result.alg
               /\ now' = clock
               /\ IF result.ok
                  THEN /\ Len(blocks) < MaxBlocks
                       /\ consensus_stats' = update_stats(consensus_stats, result, duration)
                       /\ blocks' = Append(blocks, set_consensus_data(result.block, result.proof_data))
                       /\ hist' = Append(hist, Did("add_block", TRUE, consensus_type))
                  ELSE /\ consensus_stats.consensus_failures < MaxFailures
                       /\ consensus_stats' = record_failure(consensus_stats)
                       /\ blocks' = blocks
                       /\ hist' = Append(hist, Did("add_block", FALSE, consensus_type))
  /\ UNCHANGED <<consensus_type, out>>

Next ==
  \/ \E data \in Payloads, duration \in Durations : AddBlock(data, duration)
  \/ \E new_type \in Kinds : SwitchConsensus(new_type)

Spec == Init /\ [][Next]_vars

(***************************************************************************)
(* A bare algorithm instance driven through its public interface, as       *)
(* Blockchain::benchmark_consensus_algorithms drives one: the i-th block   *)
(* handed to execute_consensus is Block::new(i, data, "test_hash").  The   *)
(* instance is consensus_algorithm, out is the outcome of the last call    *)
(* and hist counts the calls; the engine's own fields stay empty.          *)
(***************************************************************************)
\* the block of the i-th call
TestBlock(i, data) == BlockNew(i, data, "test_hash", now)

\* the engine fields of a state without an engine
NoEngine ==
  /\ blocks = <<>>
  /\ consensus_type = [kind |-> "none"]
  /\ consensus_stats = StatsDefault
  /\ now = 0

(***************************************************************************)
(* pBFT on its own.                                                        *)
(***************************************************************************)
\* a long run: executes and set_faulty_nodes calls a pBFT instance is driven through
MaxPbftRounds == 11
MaxFaultCalls == 1
\* a short run with more fault injection
MaxFaultRounds == 1
MaxFaultEdits == 2

\* <<node_count, fault_tolerance in hundredths>>
PbftConfigs == {<<7, 30>>, <<4, 25>>, <<1, 30>>}

\* arguments of set_faulty_nodes: within and beyond the limit, with a
\* repeated index, with an index that names no node
FaultLists ==
  {<<>>, <<0>>, <<1>>, <<6>>, <<0, 1>>, <<1, 2>>, <<2, 5>>, <<3, 3>>, <<2, 7>>,
   <<7>>, <<1, 2, 3>>, <<0, 1, 2, 3>>}

\* a fresh instance that will be driven through max_executes executes and
\* max_edits set_faulty_nodes calls
PbftStart(max_executes, max_edits) ==
  /\ NoEngine
  /\ \E cfg \in PbftConfigs : consensus_algorithm = PBFT_new(cfg[1], cfg[2])
  /\ hist = [executes |-> 0, edits |-> 0, max_executes |-> max_executes, max_edits |-> max_edits,
             finalized |-> <<>>]
  /\ out = NoOutcome

InitPbft == PbftStart(MaxPbftRounds, MaxFaultCalls)

InitPbftFaults == PbftStart(MaxFaultRounds, MaxFaultEdits)

\* execute_consensus on the instance; hist.finalized keeps every block a
\* successful call returned, with the view and the number of honest nodes it
\* was finalized under
PbftExecute(data) ==
  /\ hist.executes < hist.max_executes
  /\ \E result \in {PBFT_execute_consensus(consensus_algorithm, TestBlock(hist.executes, data))} :
       /\ consensus_algorithm' = result.alg
       /\ out' = [op |-> "execute_consensus", ok |-> result.ok, block |-> result.block,
                  proof_data |-> result.proof_data, error |-> result.error]
       /\ hist' = [hist EXCEPT
                     !.executes = @ + 1,
                     !.finalized =
                        IF result.ok
                        THEN Append(@, [block |-> result.block,
                                        view |-> consensus_algorithm.current_view,
                                        honest |-> Cardinality(PBFT_get_honest_nodes(
                                                                 consensus_algorithm))])
                        ELSE @]
  /\ UNCHANGED <<blocks, consensus_type, consensus_stats, now>>

\* set_faulty_nodes on the instance
PbftSetFaultyNodes(faulty_node_indices) ==
  /\ hist.edits < hist.max_edits
  /\ \E result \in {PBFT_set_faulty_nodes(consensus_algorithm, faulty_node_indices)} :
       /\ consensus_algorithm' = result.alg
       /\ out' = [op |-> "set_faulty_nodes", ok |-> result.ok, arg |-> faulty_node_indices,
                  error |-> result.error]
  /\ hist' = [hist EXCEPT !.edits = @ + 1]
  /\ UNCHANGED <<blocks, consensus_type, consensus_stats, now>>

NextPbft ==
  \/ \E data \in Payloads : PbftExecute(data)
  \/ \E faulty_node_indices \in FaultLists : PbftSetFaultyNodes(faulty_node_indices)

SpecPbft == InitPbft /\ [][NextPbft]_vars

SpecPbftFaults == InitPbftFaults /\ [][NextPbft]_vars

(***************************************************************************)
(* Proof of Authority on its own.                                          *)
(***************************************************************************)
\* executes a PoA instance is driven through
MaxPoaRounds == 6
\* changes of the authority list a PoA instance is driven through
MaxEdits == 2

\* the lists ProofOfAuthority::new is called with
AuthorityLists == {<<"a">>, <<"a", "b">>, <<"a", "b", "c">>}
\* the addresses add_authority and remove_authority are called with
Addresses == {"a", "b", "c", "d"}

InitPoa ==
  /\ NoEngine
  /\ \E authorities \in AuthorityLists : consensus_algorithm = PoA_new(authorities)
  /\ hist = [executes |-> 0, edits |-> 0, finalized |-> <<>>]
  /\ out = NoOutcome

\* execute_consensus on the instance; hist.finalized keeps every block a
\* successful call returned, with the authority list it was finalized under
PoaExecute(data) ==
  /\ hist.executes < MaxPoaRounds
  /\ \E result \in {PoA_execute_consensus(consensus_algorithm, TestBlock(hist.executes, data))} :
       /\ consensus_algorithm' = result.alg
       /\ out' = [op |-> "execute_consensus", ok |-> result.ok, block |-> result.block,
                  proof_data |-> result.proof_data, error |-> result.error]
       /\ hist' = [hist EXCEPT
                     !.executes = @ + 1,
                     !.finalized =
                        IF result.ok
                        THEN Append(@, [block |-> result.block,
                                        authorities |-> consensus_algorithm.authorities])
                        ELSE @]
  /\ UNCHANGED <<blocks, consensus_type, consensus_stats, now>>

\* add_authority on the instance
PoaAddAuthority(address) ==
  /\ hist.edits < MaxEdits
  /\ \E result \in {PoA_add_authority(consensus_algorithm, address, "pk_" \o address)} :
       /\ consensus_algorithm' = result.alg
       /\ out' = [op |-> "add_authority", ok |-> result.ok, arg |-> address,
                  error |-> result.error]
  /\ hist' = [hist EXCEPT !.edits = @ + 1]
  /\ UNCHANGED <<blocks, consensus_type, consensus_stats, now>>

\* remove_authority on the instance
PoaRemoveAuthority(address) ==
  /\ hist.edits < MaxEdits
  /\ \E result \in {PoA_remove_authority(consensus_algorithm, address)} :
       /\ consensus_algorithm' = result.alg
       /\ out' = [op |-> "remove_authority", ok |-> result.ok, arg |-> address,
                  error |-> result.error]
  /\ hist' = [hist EXCEPT !.edits = @ + 1]
  /\ UNCHANGED <<blocks, consensus_type, consensus_stats, now>>

\* a write of the public field Authority::is_active of the authority at a list position
PoaSetActive(pos, flag) ==
  /\ hist.edits < MaxEdits
  /\ pos \in 1..Len(consensus_algorithm.authorities)
  /\ consensus_algorithm' = [consensus_algorithm EXCEPT !.authorities[pos].is_active = flag]
  /\ out' = [op |-> "is_active", ok |-> TRUE, arg |-> pos, error |-> ""]
  /\ hist' = [hist EXCEPT !.edits = @ + 1]
  /\ UNCHANGED <<blocks, consensus_type, consensus_stats, now>>

NextPoa ==
  \/ \E data \in Payloads : PoaExecute(data)
  \/ \E address \in Addresses : PoaAddAuthority(address)
  \/ \E address \in Addresses : PoaRemoveAuthority(address)
  \/ \E pos \in 1..Len(consensus_algorithm.authorities), flag \in BOOLEAN : PoaSetActive(pos, flag)

SpecPoa == InitPoa /\ [][NextPoa]_vars

(***************************************************************************)
(* Properties of the engine (Spec).                                        *)
(***************************************************************************)
\* the last operation of the engine's history
LastDid == hist[Len(hist)]

\* what is_valid() can return in the current state
IsValidResults ==
  {is_valid(blocks, consensus_algorithm, sampled) : sampled \in SampleChoices(consensus_algorithm)}

\* the algorithm's execute returns an error for every block add_block can hand it now
ExecuteFails ==
  \A data \in Payloads, t \in now..MaxTime, ms \in Durations \cup {0}, clock \in now..MaxTime :
    LET new_block == BlockNew(Len(blocks), data, blocks[Len(blocks)].hash, t)
    IN \A result \in {execute_consensus(consensus_algorithm, new_block, ms, clock)} :
         result.returns /\ ~result.ok

\* C1: when the algorithm's execute returns an error, add_block returns an
\* error, leaves the chain as it was, adds one to consensus_failures and
\* leaves total_blocks, total_mining_time and energy_consumption untouched.
C1_FailedAddBlock ==
  [][(/\ Len(hist') = Len(hist) + 1
      /\ hist'[Len(hist')].op = "add_block"
      /\ ExecuteFails)
     => (/\ ~hist'[Len(hist')].ok
         /\ blocks' = blocks
         /\ consensus_stats'.consensus_failures = consensus_stats.consensus_failures + 1
         /\ consensus_stats'.total_blocks = consensus_stats.total_blocks
         /\ consensus_stats'.total_mining_time = consensus_stats.total_mining_time
         /\ consensus_stats'.energy_consumption = consensus_stats.energy_consumption)]_vars

\* a failed add_block on a chain that already holds a block beside the genesis
C1_Witness ==
  /\ LastDid.op = "add_block"
  /\ ~LastDid.ok
  /\ consensus_stats.consensus_failures = 1
  /\ Len(blocks) >= 2

\* C2: after any sequence of add_block and switch_consensus calls every block
\* but the first names the hash of the block before it, and block i has index i.
C2_ChainLinked ==
  \A i \in 1..Len(blocks) :
    /\ blocks[i].index = i - 1
    /\ i > 1 => blocks[i].previous_hash = blocks[i - 1].hash

\* a chain of three blocks, the last two finalized by different algorithms
C2_Witness ==
  /\ Len(blocks) >= 3
  /\ \E i, j, k \in 1..Len(hist) :
       /\ i < j /\ j < k
       /\ hist[i].op = "add_block" /\ hist[i].ok
       /\ hist[j].op = "switch_consensus" /\ hist[j].type.kind # hist[i].type.kind
       /\ hist[k].op = "add_block" /\ hist[k].ok

\* the last operation switched the engine to another consensus type while the
\* chain held a block beside the genesis
SwitchedWithBlocks ==
  /\ Len(hist) >= 2
  /\ LastDid.op = "switch_consensus"
  /\ LastDid.type # hist[Len(hist) - 1].type
  /\ Len(blocks) >= 2

C9_SwitchThenAdd ==
  (/\ Len(hist) = 4
   /\ hist[1].type = DefaultConsensusType
   /\ hist[2].op = "add_block" /\ hist[2].ok
   /\ hist[3].op = "switch_consensus"
   /\ hist[3].type = [kind |-> "ProofOfStake", minimum_stake |-> 1000]
   /\ hist[4].op = "add_block")
  => (/\ hist[3].ok
      /\ hist[4].ok
      /\ Len(blocks) = 3
      /\ IsValidResults = {TRUE})

\* the eight kinds of ConsensusType
KindNames ==
  {"ProofOfWork", "ProofOfStake", "ProofOfHistory", "ProofOfAuthority", "ProofOfElapsedTime",
   "ProofOfBurn", "ProofOfCapacity", "PracticalByzantineFaultTolerance"}

\* C10: new_with_consensus returns an engine for each of the eight kinds, also
\* when the genesis proof fails; the engine holds one block (index 0, data
\* "Genesis Block", previous_hash "0"), total_blocks is 1, consensus_failures
\* is 0 and is_valid() is true.
C10_NewEngine ==
  Len(hist) = 1 =>
    /\ hist[1].op = "new_with_consensus" /\ hist[1].ok
    /\ Len(blocks) = 1
    /\ blocks[1].index = 0
    /\ blocks[1].data = "Genesis Block"
    /\ blocks[1].previous_hash = "0"
    /\ consensus_stats.total_blocks = 1
    /\ consensus_stats.consensus_failures = 0
    /\ IsValidResults = {TRUE}
    /\ \A name \in KindNames :
         \E new_type \in Kinds :
           /\ new_type.kind = name
           /\ \A in \in NewInputs(new_type) :
                \A engine \in {new_with_consensus(new_type, in[1], in[2], in[3], in[4], in[5])} :
                  engine.returns /\ engine.ok /\ Len(engine.blocks) = 1

\* a fresh Stake engine: the genesis proof failed and left the hash empty
C10_Witness ==
  /\ Len(hist) = 1
  /\ consensus_type.kind = "ProofOfStake"
  /\ blocks[1].hash = ""
  /\ blocks[1].consensus_data = EmptyMap

(***************************************************************************)
(* Properties of a pBFT instance (SpecPbft, SpecPbftFaults).               *)
(***************************************************************************)
\* C3: a block returned by a successful pBFT execute_consensus is accepted by
\* validate_block on the same instance right afterwards, in every round,
\* the rounds at which the primary rotates included.
C3_ValidateAfterExecute ==
  (out.op = "execute_consensus" /\ out.ok)
  => PBFT_validate_block(consensus_algorithm, out.block)

\* C4: set_faulty_nodes with more indices than floor(node_count * fault_tolerance)
\* returns an error and leaves every node's flag and reputation as they were;
\* with at most that many it succeeds, node i is faulty afterwards exactly
\* when i is in the list, and every listed node has the lowered reputation.
C4_SetFaultyNodes ==
  [][(hist'.edits = hist.edits + 1)
     => LET list == out'.arg
            before == consensus_algorithm.nodes
            after == consensus_algorithm'.nodes
            limit == (consensus_algorithm.node_count * consensus_algorithm.fault_tolerance) \div 100
            listed(i) == \E k \in 1..Len(list) : list[k] = i
        IN /\ out'.op = "set_faulty_nodes"
           /\ Len(after) = Len(before)
           /\ IF Len(list) > limit
              THEN /\ ~out'.ok
                   /\ \A i \in 1..Len(before) :
                        /\ after[i].is_faulty = before[i].is_faulty
                        /\ after[i].reputation = before[i].reputation
              ELSE /\ out'.ok
                   /\ \A i \in 1..Len(after) :
                        /\ after[i].is_faulty <=> listed(i - 1)
                        /\ listed(i - 1) => /\ after[i].reputation = 1
                                            /\ after[i].reputation <= before[i].reputation]_vars

\* a second accepted call has replaced the faulty set of the first: a node is
\* honest again (with the reputation it was left with) and another is faulty
C4_Witness ==
  /\ out.op = "set_faulty_nodes"
  /\ out.ok
  /\ hist.edits = 2
  /\ \E i, j \in 1..Len(consensus_algorithm.nodes) :
       /\ ~consensus_algorithm.nodes[i].is_faulty
       /\ consensus_algorithm.nodes[i].reputation = 1
       /\ consensus_algorithm.nodes[j].is_faulty

\* C5: with 7 nodes and fault tolerance 0.3, execute_consensus succeeds on
\* every call, before and after the primary rotates, whenever at most 2 nodes
\* are faulty and the current primary is honest.
C5_ExecuteSucceeds ==
  [][(/\ hist'.executes = hist.executes + 1
      /\ consensus_algorithm.node_count = 7
      /\ consensus_algorithm.fault_tolerance = 30
      /\ Cardinality({i \in 1..Len(consensus_algorithm.nodes) :
                        consensus_algorithm.nodes[i].is_faulty}) <= 2
      /\ \E i \in 1..Len(consensus_algorithm.nodes) :
           consensus_algorithm.nodes[i].is_primary /\ ~consensus_algorithm.nodes[i].is_faulty)
     => (out'.op = "execute_consensus" /\ out'.ok)]_vars

\* a successful round after the rotation, with two faulty nodes
C5_Witness ==
  /\ out.op = "execute_consensus"
  /\ out.ok
  /\ consensus_algorithm.node_count = 7
  /\ hist.executes > RotationPeriod
  /\ consensus_algorithm.current_view >= 1
  /\ out.block.nonce >= RotationPeriod
  /\ Cardinality({i \in 1..Len(consensus_algorithm.nodes) :
                    consensus_algorithm.nodes[i].is_faulty}) = 2

(***************************************************************************)
(* Properties of a Proof of Authority instance (SpecPoa).                  *)
(***************************************************************************)
\* C6: on an instance whose n authorities are all active and unchanged, the
\* k-th execute_consensus (k = 0, 1, ...) succeeds, is signed by the authority
\* at list position k mod n and stores that position as the nonce.
C6_RoundRobin ==
  (out.op = "execute_consensus" /\ hist.edits = 0)
  => LET n == Len(consensus_algorithm.authorities)
         k == hist.executes - 1
         authority == consensus_algorithm.authorities[(k % n) + 1]
     IN /\ out.ok
        /\ out.block.nonce = k % n
        /\ out.block.hash =
             Sha256(BlockFields(out.block) \o authority.address \o authority.public_key)
        /\ MapGet(out.proof_data, "authority_address") = authority.address

\* three authorities, six calls: the sixth is signed by position 2
C6_Witness ==
  /\ out.op = "execute_consensus"
  /\ hist.edits = 0
  /\ Len(consensus_algorithm.authorities) = 3
  /\ hist.executes = 6
  /\ out.block.nonce = 2
  /\ consensus_algorithm.current_authority_index = 0

\* C7: remove_authority of the last active authority (the only authority, or
\* the only active one among several) returns an error and leaves the
\* authority list and the rotation index as they were.
C7_RemoveLastActive ==
  [][(/\ hist'.edits = hist.edits + 1
      /\ out'.op = "remove_authority"
      /\ LET active == {i \in 1..Len(consensus_algorithm.authorities) :
                          consensus_algorithm.authorities[i].is_active}
         IN /\ Cardinality(active) = 1
            /\ \A i \in active : consensus_algorithm.authorities[i].address = out'.arg)
     => (/\ ~out'.ok
         /\ consensus_algorithm'.authorities = consensus_algorithm.authorities
         /\ consensus_algorithm'.current_authority_index
              = consensus_algorithm.current_authority_index)]_vars

(***************************************************************************)
(* Further properties of the engine (Spec).                                *)
(***************************************************************************)
\* C11: switch_consensus(kind) succeeds, leaves the blocks and every stats
\* field as they were, sets consensus_type to kind and installs a fresh
\* instance of that kind in its initial state (pBFT: sequence 0, view 0,
\* node_0 the only primary, no faulty node, empty log; Authority: turn 0, all
\* active; History: sequence 0; Stake, Burn, Capacity: empty), also when kind
\* is the kind already active.
C11_SwitchReplaces ==
  [][(Len(hist') = Len(hist) + 1 /\ hist'[Len(hist')].op = "switch_consensus")
     => LET kind == hist'[Len(hist')].type
            fresh == consensus_algorithm'
        IN /\ hist'[Len(hist')].ok
           /\ blocks' = blocks
           /\ consensus_stats' = consensus_stats
           /\ consensus_type' = kind
           /\ fresh.kind = kind.kind
           /\ kind.kind = "PracticalByzantineFaultTolerance" =>
                /\ fresh.current_sequence = 0
                /\ fresh.current_view = 0
                /\ fresh.message_log = <<>>
                /\ Len(fresh.nodes) = kind.node_count
                /\ \A i \in 1..Len(fresh.nodes) :
                     /\ fresh.nodes[i].is_primary <=> i = 1
                     /\ ~fresh.nodes[i].is_faulty
           /\ kind.kind = "ProofOfAuthority" =>
                /\ fresh.current_authority_index = 0
                /\ Len(fresh.authorities) = Len(kind.validators)
                /\ \A i \in 1..Len(fresh.authorities) :
                     /\ fresh.authorities[i].address = kind.validators[i]
                     /\ fresh.authorities[i].is_active
           /\ kind.kind = "ProofOfHistory" =>
                fresh.sequence_number = 0 /\ fresh.previous_output = "genesis"
           /\ kind.kind = "ProofOfWork" => fresh.difficulty = kind.difficulty
           /\ kind.kind = "ProofOfStake" => fresh.validators = <<>>
           /\ kind.kind = "ProofOfBurn" => fresh.burn_transactions = <<>>
           /\ kind.kind = "ProofOfCapacity" => fresh.plots = <<>>]_vars

\* a pBFT engine that finalized a block (sequence 1, a log of messages) was
\* switched to pBFT again and is back at sequence 0 with an empty log
C11_Witness ==
  /\ Len(hist) >= 3
  /\ LastDid.op = "switch_consensus"
  /\ LastDid.type.kind = "PracticalByzantineFaultTolerance"
  /\ hist[Len(hist) - 1].op = "add_block"
  /\ hist[Len(hist) - 1].ok
  /\ hist[Len(hist) - 1].type.kind = "PracticalByzantineFaultTolerance"
  /\ consensus_algorithm.current_sequence = 0
  /\ consensus_algorithm.message_log = <<>>
  /\ blocks[Len(blocks)].nonce = 0
  /\ MapGet(blocks[Len(blocks)].consensus_data, "messages_processed") # "0"

\* every block after the first names the hash of the block before it
LinksHold == \A i \in 2..Len(blocks) : blocks[i].previous_hash = blocks[i - 1].hash

\* C12 as stated: is_valid() is true exactly when every block after the first
\* links to its predecessor and every block, the genesis block included, is
\* accepted by the active algorithm's validate.
C12_ValidatesEveryBlock ==
  \A sampled \in SampleChoices(consensus_algorithm) :
    is_valid(blocks, consensus_algorithm, sampled)
      <=> (/\ LinksHold
           /\ \A i \in 1..Len(blocks) : validate_block(consensus_algorithm, blocks[i], sampled))

\* C12, amended: is_valid() is true exactly when every block after the first
\* links to its predecessor and is accepted by the active algorithm's
\* validate; the genesis block is never handed to validate.
C12_ValidatesAfterGenesis ==
  \A sampled \in SampleChoices(consensus_algorithm) :
    /\ is_valid(blocks, consensus_algorithm, sampled) \in BOOLEAN
    /\ is_valid(blocks, consensus_algorithm, sampled)
         <=> (/\ LinksHold
              /\ \A i \in 1..Len(blocks) :
                   i >= 2 => validate_block(consensus_algorithm, blocks[i], sampled))
    /\ (Len(blocks) = 1) => is_valid(blocks, consensus_algorithm, sampled)

\* a chain whose genesis block the active algorithm rejects (its proof failed
\* and left the hash empty) and whose second block it accepts: is_valid() is true
C12_Witness ==
  /\ Len(blocks) >= 2
  /\ blocks[1].hash = ""
  /\ \A sampled \in SampleChoices(consensus_algorithm) :
       /\ ~validate_block(consensus_algorithm, blocks[1], sampled)
       /\ validate_block(consensus_algorithm, blocks[2], sampled)
  /\ IsValidResults = {TRUE}

(***************************************************************************)
(* Proof of Work on its own.                                               *)
(***************************************************************************)
\* execute_consensus and validate_block calls a Work instance is driven through
MaxPowRounds == 3
MaxPowValidates == 1

\* difficulties of the instance: those a digest can meet, and one past the
\* 64 characters of a digest
PowDifficulties == (0..DefaultPowDifficulty) \cup {HashHexLen + 1}

\* payloads of the blocks handed to the instance
PowPayloads == {"tx1", "tx2"}

InitPow ==
  /\ NoEngine
  /\ \E difficulty \in PowDifficulties : consensus_algorithm = PoW_new(difficulty)
  /\ hist = [executes |-> 0, validates |-> 0]
  /\ out = NoOutcome

\* a call on the instance has panicked: the thread is gone
PowPanicked == out.op # "none" /\ out.panics

\* execute_consensus on the instance, at clock reading t
PowExecute(data, t) ==
  /\ ~PowPanicked
  /\ hist.executes < MaxPowRounds
  /\ \E result \in {PoW_execute_consensus(consensus_algorithm,
                                           BlockNew(hist.executes, data, "test_hash", t))} :
       /\ result.returns \/ result.panics
       /\ consensus_algorithm' = result.alg
       /\ out' = [op |-> "execute_consensus", ok |-> result.ok, panics |-> result.panics,
                  block |-> result.block, proof_data |-> result.proof_data,
                  error |-> result.error]
  /\ hist' = [hist EXCEPT !.executes = @ + 1]
  /\ now' = t
  /\ UNCHANGED <<blocks, consensus_type, consensus_stats>>

\* validate_block on the instance: of the block the last call left, or of a
\* block that was never mined
PowValidate(data) ==
  /\ ~PowPanicked
  /\ hist.validates < MaxPowValidates
  /\ \E block \in {IF out.op = "none" THEN TestBlock(0, data) ELSE out.block} :
       out' = IF PoW_validate_panics(consensus_algorithm, block)
              THEN [op |-> "validate_block", ok |-> FALSE, panics |-> TRUE, block |-> block,
                    proof_data |-> EmptyMap, error |-> "byte index out of bounds"]
              ELSE [op |-> "validate_block",
                    ok |-> PoW_validate_block(consensus_algorithm, block),
                    panics |-> FALSE, block |-> block, proof_data |-> EmptyMap, error |-> ""]
  /\ hist' = [hist EXCEPT !.validates = @ + 1]
  /\ UNCHANGED <<blocks, consensus_type, consensus_stats, consensus_algorithm, now>>

NextPow ==
  \/ \E data \in PowPayloads, t \in now..MaxTime : PowExecute(data, t)
  \/ \E data \in PowPayloads : PowValidate(data)

SpecPow == InitPow /\ [][NextPow]_vars

(***************************************************************************)
(* Properties of a Proof of Work instance (SpecPow).                       *)
(***************************************************************************)
\* C13: no operation panics, whatever the parameters: a call on the instance
\* returns a result (execute_consensus) or a boolean (validate_block).
C13_NoPanic == out.op # "none" => ~out.panics

\* C14: for a difficulty d in 0..4, execute_consensus stores the smallest
\* nonce whose hash over (index, timestamp, data, previous_hash, nonce, d)
\* starts with d '0' characters, the stored hash is the hash recomputed at the
\* stored nonce, and validate_block accepts the block.
C14_SmallestNonce ==
  (/\ out.op = "execute_consensus"
   /\ consensus_algorithm.difficulty \in 0..4)
  => LET pow == consensus_algorithm
         block == out.block
     IN /\ out.ok
        /\ block.nonce >= 0
        /\ ZeroPrefix(block.hash, pow.difficulty)
        /\ SubSeq(block.hash, 1, pow.difficulty) = Repeat("0", pow.difficulty)
        /\ \A n \in 0..(block.nonce - 1) :
             SubSeq(PoW_calculate_hash(pow, block, n), 1, pow.difficulty)
               # Repeat("0", pow.difficulty)
        /\ block.hash = PoW_calculate_hash(pow, block, block.nonce)
        /\ block.hash =
             Sha256(ToString(block.index) \o ToString(block.timestamp) \o block.data
                      \o block.previous_hash \o ToString(block.nonce) \o ToString(pow.difficulty))
        /\ MapGet(out.proof_data, "nonce") = ToString(block.nonce)
        /\ ~PoW_validate_panics(pow, block)
        /\ PoW_validate_block(pow, block)

\* a block mined at difficulty 4 whose search passed over nonce 0
C14_Witness ==
  /\ out.op = "execute_consensus"
  /\ out.ok
  /\ consensus_algorithm.difficulty = 4
  /\ out.block.nonce > 0
  /\ SubSeq(out.block.hash, 1, 4) = "0000"

(***************************************************************************)
(* Further properties of a Proof of Authority instance (SpecPoa).          *)
(***************************************************************************)
\* C15: a block returned by a successful execute_consensus is accepted by
\* validate_block on the same instance right afterwards and after any number
\* of further execute_consensus calls, as long as the authority list and the
\* active flags are what they were when the block was finalized.
C15_ValidateAfterRotation ==
  /\ (out.op = "execute_consensus" /\ out.ok) =>
       PoA_validate_block(consensus_algorithm, out.block)
  /\ \A k \in 1..Len(hist.finalized) :
       hist.finalized[k].authorities = consensus_algorithm.authorities
         => PoA_validate_block(consensus_algorithm, hist.finalized[k].block)

\* three blocks finalized by two authorities in turn: the first is validated
\* after two further rotations, while the turn is with the other authority
C15_Witness ==
  /\ Len(hist.finalized) = 3
  /\ hist.edits = 0
  /\ Len(consensus_algorithm.authorities) = 2
  /\ hist.finalized[1].block.nonce = 0
  /\ consensus_algorithm.current_authority_index = 1
  /\ PoA_validate_block(consensus_algorithm, hist.finalized[1].block)

(***************************************************************************)
(* Proof of Stake on its own.  The blocks handed to the instance differ in *)
(* their previous_hash, which seeds the selection.                         *)
(***************************************************************************)
\* execute_consensus and add_validator calls a Stake instance is driven through
MaxPosRounds == 2
MaxPosEdits == 2

\* minimum_stake of the instance
PosMinimumStake == 1000

\* addresses and stakes add_validator is called with (one stake below the minimum)
PosAddresses == {"a", "b"}
PosStakes == {500, 1000, 3000}

\* previous_hash of the blocks handed to the instance
SeedHashes == {"test_hash", "h1", "h9"}

InitPos ==
  /\ NoEngine
  /\ consensus_algorithm = PoS_new(PosMinimumStake)
  /\ hist = [executes |-> 0, edits |-> 0, selections |-> <<>>]
  /\ out = NoOutcome

\* add_validator on the instance
PosAddValidator(address, stake) ==
  /\ hist.edits < MaxPosEdits
  /\ \E result \in {PoS_add_validator(consensus_algorithm, address, stake)} :
       /\ consensus_algorithm' = result.alg
       /\ out' = [op |-> "add_validator", ok |-> result.ok, arg |-> <<address, stake>>,
                  error |-> result.error]
  /\ hist' = [hist EXCEPT !.edits = @ + 1]
  /\ UNCHANGED <<blocks, consensus_type, consensus_stats, now>>

\* execute_consensus on the instance; hist.selections keeps, for every
\* successful call, the block handed in, the validator list and the list
\* position of the validator select_validator chose
PosExecute(data, previous_hash) ==
  /\ hist.executes < MaxPosRounds
  /\ \E block \in {BlockNew(hist.executes, data, previous_hash, now)} :
       \E result \in {PoS_execute_consensus(consensus_algorithm, block)} :
         /\ consensus_algorithm' = result.alg
         /\ out' = [op |-> "execute_consensus", ok |-> result.ok, block |-> result.block,
                    proof_data |-> result.proof_data, error |-> result.error]
         /\ hist' = [hist EXCEPT
                       !.executes = @ + 1,
                       !.selections =
                          IF result.ok
                          THEN Append(@, [block |-> block,
                                          validators |-> consensus_algorithm.validators,
                                          selected |-> PoS_select_validator(consensus_algorithm, block)])
                          ELSE @]
  /\ UNCHANGED <<blocks, consensus_type, consensus_stats, now>>

NextPos ==
  \/ \E address \in PosAddresses, stake \in PosStakes : PosAddValidator(address, stake)
  \/ \E data \in Payloads, previous_hash \in SeedHashes : PosExecute(data, previous_hash)

SpecPos == InitPos /\ [][NextPos]_vars

(***************************************************************************)
(* Properties of a Proof of Stake instance (SpecPos).                      *)
(***************************************************************************)
\* C16: with a non-empty validator list of positive total weight, two
\* validators of equal stake included, a block returned by a successful
\* execute_consensus is accepted by validate_block on the same unchanged instance.
C16_StakeValidates ==
  (/\ out.op = "execute_consensus"
   /\ out.ok
   /\ Len(consensus_algorithm.validators) > 0
   /\ PoS_cumulative(consensus_algorithm.validators, Len(consensus_algorithm.validators)) > 0)
  => PoS_validate_block(consensus_algorithm, out.block)

(***************************************************************************)
(* Proof of Burn on its own.                                               *)
(***************************************************************************)
\* execute_consensus and add_burn_transaction calls a Burn instance is driven through
MaxPobRounds == 2
MaxPobEdits == 2

\* burn_amount (the minimum) of the instance
PobMinimumBurn == 100

\* amounts (one below the minimum) and timestamps add_burn_transaction is called with
PobAmounts == {50, 100, 300}
PobTimestamps == {0, 1}

\* previous_hash of the blocks handed to execute_consensus
PobSeedHashes == {"test_hash", "h9"}

InitPob ==
  /\ NoEngine
  /\ consensus_algorithm = PoB_new(PobMinimumBurn)
  /\ hist = [executes |-> 0, edits |-> 0, selections |-> <<>>]
  /\ out = NoOutcome

\* add_burn_transaction on the instance
PobAddBurnTransaction(amount, timestamp) ==
  /\ hist.edits < MaxPobEdits
  /\ \E result \in {PoB_add_burn_transaction(consensus_algorithm, amount, timestamp)} :
       /\ consensus_algorithm' = result.alg
       /\ out' = [op |-> "add_burn_transaction", ok |-> result.ok,
                  arg |-> <<amount, timestamp>>, error |-> result.error]
  /\ hist' = [hist EXCEPT !.edits = @ + 1]
  /\ UNCHANGED <<blocks, consensus_type, consensus_stats, now>>

\* execute_consensus on the instance; hist.selections keeps, for every
\* successful call, the block handed in, the ledger and the ledger position
\* of the record select_miner chose
PobExecute(data, previous_hash) ==
  /\ hist.executes < MaxPobRounds
  /\ \E index \in {0, hist.executes} :
       \E block \in {BlockNew(index, data, previous_hash, now)} :
         \E result \in {PoB_execute_consensus(consensus_algorithm, block)} :
           /\ consensus_algorithm' = result.alg
           /\ out' = [op |-> "execute_consensus", ok |-> result.ok, block |-> result.block,
                      proof_data |-> result.proof_data, error |-> result.error]
           /\ hist' = [hist EXCEPT
                         !.executes = @ + 1,
                         !.selections =
                            IF result.ok
                            THEN Append(@, [block |-> block,
                                            burn_transactions |->
                                              consensus_algorithm.burn_transactions,
                                            selected |-> PoB_select_miner(consensus_algorithm, block)])
                            ELSE @]
  /\ UNCHANGED <<blocks, consensus_type, consensus_stats, now>>

NextPob ==
  \/ \E amount \in PobAmounts, timestamp \in PobTimestamps :
       PobAddBurnTransaction(amount, timestamp)
  \/ \E data \in PowPayloads, previous_hash \in PobSeedHashes : PobExecute(data, previous_hash)

SpecPob == InitPob /\ [][NextPob]_vars

(***************************************************************************)
(* Properties of a Proof of Burn instance (SpecPob).                       *)
(***************************************************************************)
\* C17: with a non-empty burn ledger, of one record or of several, a block
\* returned by a successful execute_consensus is accepted by validate_block on
\* the same unchanged instance.
C17_BurnValidates ==
  (/\ out.op = "execute_consensus"
   /\ out.ok
   /\ Len(consensus_algorithm.burn_transactions) > 0)
  => PoB_validate_block(consensus_algorithm, out.block)


(***************************************************************************)
(* Proof of History on its own.                                            *)
(***************************************************************************)
\* execute_consensus calls a History instance is driven through
MaxPohRounds == 3

\* vdf_iterations of the instance
PohIterations == {1, 2}

\* block data of the calls
PohPayloads == {"tx1", "tx2"}

InitPoh ==
  /\ NoEngine
  /\ \E vdf_iterations \in PohIterations : consensus_algorithm = PoH_new(vdf_iterations)
  /\ hist = [executes |-> 0, calls |-> <<>>]
  /\ out = NoOutcome

\* execute_consensus on the instance; hist.calls keeps, for every call, the
\* block handed in, the sequence_number before the call and the
\* history_output the call reported
PohExecute(data, previous_hash) ==
  /\ hist.executes < MaxPohRounds
  /\ \E block \in {BlockNew(hist.executes, data, previous_hash, now)}, ms \in Durations :
       \E result \in {PoH_execute_consensus(consensus_algorithm, block, ms)} :
         /\ consensus_algorithm' = result.alg
         /\ out' = [op |-> "execute_consensus", ok |-> result.ok, block |-> result.block,
                    proof_data |-> result.proof_data, error |-> result.error]
         /\ hist' = [hist EXCEPT
                       !.executes = @ + 1,
                       !.calls = Append(@, [block |-> block,
                                            sequence_before |-> consensus_algorithm.sequence_number,
                                            history_output |->
                                              (CHOOSE p \in result.proof_data :
                                                 p[1] = "history_output")[2]])]
  /\ UNCHANGED <<blocks, consensus_type, consensus_stats, now>>

NextPoh ==
  \E data \in PohPayloads, previous_hash \in SeedHashes : PohExecute(data, previous_hash)

SpecPoh == InitPoh /\ [][NextPoh]_vars

(***************************************************************************)
(* Properties of a Proof of History instance (SpecPoh).                    *)
(***************************************************************************)
\* the VDF output the n-th call was fed: "genesis" or the previous call's output
PohFedOutput(n) == IF n = 1 THEN "genesis" ELSE hist.calls[n - 1].history_output

\* every execute so far raised sequence_number by exactly 1, the block of the
\* last one carries the new counter (at least 1) as nonce, and every proof is
\* the VDF of the previous call's output followed by the block's fields
PohCountersChain ==
  /\ \A n \in 1..Len(hist.calls) :
       /\ hist.calls[n].sequence_before = n - 1
       /\ hist.calls[n].history_output =
            PoH_compute_vdf(PohFedOutput(n) \o BlockFields(hist.calls[n].block),
                            consensus_algorithm.vdf_iterations)
  /\ consensus_algorithm.sequence_number = Len(hist.calls)
  /\ out.op = "execute_consensus" =>
       /\ out.ok
       /\ out.block.nonce = consensus_algorithm.sequence_number
       /\ out.block.nonce >= 1

\* C18: a block returned by execute_consensus is accepted by validate_block on
\* the same instance right afterwards, each execute raises sequence_number by
\* exactly 1, stores the new counter (at least 1) as the block's nonce and
\* feeds the previous call's VDF output into the next proof.
C18_HistoryValidates ==
  /\ PohCountersChain
  /\ out.op = "execute_consensus" => PoH_validate_block(consensus_algorithm, out.block)


(***************************************************************************)
(* The two algorithms that select by a seeded draw, side by side: the      *)
(* instance is a Stake or a Burn instance and is driven as in SpecPos or   *)
(* SpecPob.                                                                *)
(***************************************************************************)
InitSelect == InitPos \/ InitPob

NextSelect ==
  \/ consensus_algorithm.kind = "ProofOfStake" /\ NextPos
  \/ consensus_algorithm.kind = "ProofOfBurn" /\ NextPob

SpecSelect == InitSelect /\ [][NextSelect]_vars

\* two recorded Stake selections made with the same previous_hash against the
\* same validator list chose the same validator
PosSelectionsAgree ==
  \A i, j \in 1..Len(hist.selections) :
    (/\ hist.selections[i].block.previous_hash = hist.selections[j].block.previous_hash
     /\ hist.selections[i].validators = hist.selections[j].validators)
    => hist.selections[i].selected = hist.selections[j].selected

\* two recorded Burn selections made with the same previous_hash and index
\* against the same ledger chose the same burn record
PobSelectionsAgree ==
  \A i, j \in 1..Len(hist.selections) :
    (/\ hist.selections[i].block.previous_hash = hist.selections[j].block.previous_hash
     /\ hist.selections[i].block.index = hist.selections[j].block.index
     /\ hist.selections[i].burn_transactions = hist.selections[j].burn_transactions)
    => hist.selections[i].selected = hist.selections[j].selected

\* the selections recorded so far agree
SelectionsAgree ==
  IF consensus_algorithm.kind = "ProofOfStake" THEN PosSelectionsAgree ELSE PobSelectionsAgree

\* an execute_consensus step, successful or not, leaves the instance as it was
ExecuteKeepsLists ==
  hist'.executes > hist.executes => consensus_algorithm' = consensus_algorithm

\* C19: selection is deterministic.  Two Stake executes on blocks with the same
\* previous_hash against the same validator list select the same validator, two
\* Burn executes on blocks with the same previous_hash and index against the
\* same ledger select the same burn record, and no execute modifies the
\* validator list or the ledger.
C19_SelectionDeterministic == []SelectionsAgree /\ [][ExecuteKeepsLists]_vars

\* two Stake executes on different blocks with the same previous_hash chose
\* between two validators, and two Burn executes on blocks of different data
\* with the same previous_hash and index chose between two burn records
C19_Witness ==
  /\ Len(hist.selections) = 2
  /\ hist.selections[1].block # hist.selections[2].block
  /\ hist.selections[1].block.previous_hash = hist.selections[2].block.previous_hash
  /\ hist.selections[1].selected = 2
  /\ hist.selections[2].selected = 2
  /\ IF consensus_algorithm.kind = "ProofOfStake"
     THEN /\ Len(consensus_algorithm.validators) = 2
          /\ hist.selections[1].validators = hist.selections[2].validators
     ELSE /\ Len(consensus_algorithm.burn_transactions) = 2
          /\ hist.selections[1].block.index = hist.selections[2].block.index
          /\ hist.selections[1].burn_transactions = hist.selections[2].burn_transactions


(***************************************************************************)
(* The counters of a pBFT instance (SpecPbft).                             *)
(***************************************************************************)
\* current_view is the number of completed rotation periods
PbftViewFollowsSequence ==
  consensus_algorithm.current_view = consensus_algorithm.current_sequence \div RotationPeriod

\* what one step does to the counters: a successful execute_consensus stores
\* the sequence of before as the nonce, raises current_sequence by 1 and raises
\* current_view by 1 exactly when the new sequence is a multiple of the
\* rotation period; a failed one keeps both; no step lowers either
PbftCountersStep ==
  LET before == consensus_algorithm
      after == consensus_algorithm'
  IN /\ after.current_sequence >= before.current_sequence
     /\ after.current_view >= before.current_view
     /\ hist'.executes = hist.executes + 1 =>
          IF out'.ok
          THEN /\ out'.block.nonce = before.current_sequence
               /\ after.current_sequence = before.current_sequence + 1
               /\ after.current_view =
                    IF after.current_sequence % RotationPeriod = 0
                    THEN before.current_view + 1 ELSE before.current_view
          ELSE /\ after.current_sequence = before.current_sequence
               /\ after.current_view = before.current_view

\* C20: each successful pBFT execute_consensus stores the sequence of before
\* the call as the block's nonce and then raises current_sequence by exactly 1;
\* current_view rises by exactly 1 exactly when the raised sequence is a
\* multiple of 10, so current_view = current_sequence div 10 in every state; a
\* failed execute changes neither counter, and neither counter ever decreases.
C20_Counters == []PbftViewFollowsSequence /\ [][PbftCountersStep]_vars

\* an execute_consensus that failed after the tenth success moved the view on
C20_Witness ==
  /\ out.op = "execute_consensus"
  /\ ~out.ok
  /\ consensus_algorithm.current_sequence = RotationPeriod
  /\ consensus_algorithm.current_view = 1
  /\ hist.executes = RotationPeriod + 1


(***************************************************************************)
(* The primary flag of a pBFT instance (SpecPbft).                         *)
(***************************************************************************)
\* the list positions of the nodes flagged primary
PbftPrimaries(pbft) == {i \in 1..Len(pbft.nodes) : pbft.nodes[i].is_primary}

\* exactly one node is flagged primary
PbftOnePrimary == Cardinality(PbftPrimaries(consensus_algorithm)) = 1

\* the steps from list position p forward to position q, cyclically: 1..n
PbftStepsAfter(p, q, n) == ((q - p - 1 + n) % n) + 1

\* a step that changes the view is a rotation: the flag goes to the honest
\* node the fewest steps after the old primary, the old primary itself (a
\* full cycle) when no other node is honest
PbftRotationStep ==
  LET before == consensus_algorithm
      after == consensus_algorithm'
      n == Len(before.nodes)
  IN after.current_view # before.current_view =>
       \E p \in PbftPrimaries(before), q \in PbftPrimaries(after) :
         /\ PbftPrimaries(before) = {p}
         /\ PbftPrimaries(after) = {q}
         /\ ~after.nodes[q].is_faulty
         /\ ~before.nodes[q].is_faulty
         /\ \A r \in 1..n :
              ~before.nodes[r].is_faulty => PbftStepsAfter(p, q, n) <= PbftStepsAfter(p, r, n)

\* C21: in every pBFT state reachable from new through set_faulty_nodes and
\* execute_consensus exactly one node is flagged primary, and a rotation moves
\* the flag to the first non-faulty node after the old primary in cyclic list
\* order, never to a faulty node.
C21_OnePrimary == []PbftOnePrimary /\ [][PbftRotationStep]_vars

\* a rotation has skipped a faulty node: node_1 is faulty and node_2 is primary
C21_Witness ==
  /\ consensus_algorithm.current_view = 1
  /\ Len(consensus_algorithm.nodes) >= 3
  /\ consensus_algorithm.nodes[2].is_faulty
  /\ PbftPrimaries(consensus_algorithm) = {3}
  /\ out.op = "execute_consensus"
  /\ out.ok


(***************************************************************************)
(* pBFT on its own, reconfigured while it runs.                            *)
(***************************************************************************)
\* executes, set_faulty_nodes calls and configure calls of the run
MaxConfigRounds == 1
MaxConfigFaultCalls == 1
MaxConfigures == 1

\* the node_count and fault_tolerance entries configure is called with
ConfigNodeCounts == {ParamAbsent, ParamInvalid, ParamValue(0), ParamValue(4), ParamValue(7)}
ConfigTolerances == {ParamAbsent, ParamInvalid, ParamValue(10), ParamValue(50)}

InitPbftConfigure ==
  /\ NoEngine
  /\ \E cfg \in PbftConfigs : consensus_algorithm = PBFT_new(cfg[1], cfg[2])
  /\ hist = [executes |-> 0, edits |-> 0, max_executes |-> MaxConfigRounds,
             max_edits |-> MaxConfigFaultCalls, finalized |-> <<>>, configures |-> 0]
  /\ out = NoOutcome

\* configure on the instance
PbftConfigure(node_count, fault_tolerance) ==
  /\ hist.configures < MaxConfigures
  /\ \E result \in {PBFT_configure(consensus_algorithm, node_count, fault_tolerance)} :
       /\ consensus_algorithm' = result.alg
       /\ out' = [op |-> "configure", ok |-> result.ok,
                  arg |-> <<node_count, fault_tolerance>>, error |-> result.error]
  /\ hist' = [hist EXCEPT !.configures = @ + 1]
  /\ UNCHANGED <<blocks, consensus_type, consensus_stats, now>>

NextPbftConfigure ==
  \/ NextPbft
  \/ \E node_count \in ConfigNodeCounts, fault_tolerance \in ConfigTolerances :
       PbftConfigure(node_count, fault_tolerance)

SpecPbftConfigure == InitPbftConfigure /\ [][NextPbftConfigure]_vars

\* C22: in every pBFT state reachable through set_faulty_nodes,
\* execute_consensus and configure, the number of nodes marked faulty is at
\* most floor(node_count * fault_tolerance) for the current node_count and
\* fault_tolerance.
C22_FaultyWithinLimit ==
  Cardinality({i \in 1..Len(consensus_algorithm.nodes) : consensus_algorithm.nodes[i].is_faulty})
    <= PBFT_max_faulty(consensus_algorithm)


(***************************************************************************)
(* Failing rounds of a pBFT instance (SpecPbftConfigure).                  *)
(***************************************************************************)
\* the number of nodes of the instance not marked faulty
PbftHonestCount(pbft) == Cardinality({i \in 1..Len(pbft.nodes) : ~pbft.nodes[i].is_faulty})

\* the node list is empty, too few nodes are honest, or no honest node is primary
PbftCannotRun(pbft) ==
  \/ Len(pbft.nodes) = 0
  \/ PbftHonestCount(pbft) < (pbft.node_count * 2) \div 3 + 1
  \/ \A i \in 1..Len(pbft.nodes) : pbft.nodes[i].is_primary => pbft.nodes[i].is_faulty

\* an execute_consensus step from a state that cannot run a round fails and
\* leaves the block and the instance as they were
PbftFailedStep ==
  LET before == consensus_algorithm
      after == consensus_algorithm'
  IN (hist'.executes = hist.executes + 1 /\ PbftCannotRun(before)) =>
       /\ out'.op = "execute_consensus"
       /\ ~out'.ok
       /\ out'.error # ""
       /\ out'.block.hash = ""
       /\ out'.block.nonce = 0
       /\ after.current_sequence = before.current_sequence
       /\ after.current_view = before.current_view
       /\ Len(after.nodes) = Len(before.nodes)
       /\ \A i \in 1..Len(before.nodes) : after.nodes[i].is_primary = before.nodes[i].is_primary
       /\ after.message_log = before.message_log

\* C23: pBFT execute_consensus returns an error and leaves the block's hash and
\* nonce, current_sequence, current_view, the primary flag and the message log
\* unchanged when the node list is empty, when fewer than
\* (node_count * 2 / 3) + 1 nodes are honest, or when the node marked primary
\* is faulty.
C23_FailedRound == [][PbftFailedStep]_vars

\* execute_consensus has failed on an instance whose primary is faulty while
\* enough nodes are honest
C23_Witness ==
  /\ out.op = "execute_consensus"
  /\ ~out.ok
  /\ out.error = "No primary node available"
  /\ Len(consensus_algorithm.nodes) > 0
  /\ PbftHonestCount(consensus_algorithm) >= (consensus_algorithm.node_count * 2) \div 3 + 1
  /\ \E i \in 1..Len(consensus_algorithm.nodes) :
       consensus_algorithm.nodes[i].is_primary /\ consensus_algorithm.nodes[i].is_faulty


(***************************************************************************)
(* The message log of a pBFT instance (SpecPbft).                          *)
(***************************************************************************)
\* the node_ids of the honest nodes, in list order
PbftHonestIds(pbft) ==
  LET honest == SelectSeq(pbft.nodes, LAMBDA node : ~node.is_faulty)
  IN [k \in 1..Len(honest) |-> honest[k].node_id]

\* the node_ids of the honest nodes that are not primary, in list order
PbftBackupIds(pbft) ==
  LET backups == SelectSeq(pbft.nodes, LAMBDA node : ~node.is_faulty /\ ~node.is_primary)
  IN [k \in 1..Len(backups) |-> backups[k].node_id]

\* the log only grows, and a successful round with h honest nodes appends a
\* PrePrepare of the honest primary, the Prepares of the h - 1 honest backups
\* and the Commits of the h honest nodes, all of the round's view and sequence
PbftLogStep ==
  LET before == consensus_algorithm
      after == consensus_algorithm'
      old == Len(before.message_log)
      added == SubSeq(after.message_log, old + 1, Len(after.message_log))
      honest == PbftHonestIds(before)
      backups == PbftBackupIds(before)
      h == Len(honest)
  IN /\ Len(after.message_log) >= old
     /\ SubSeq(after.message_log, 1, old) = before.message_log
     /\ (hist'.executes = hist.executes + 1 /\ out'.ok) =>
          /\ Len(added) = 2 * h
          /\ Len(backups) = h - 1
          /\ added[1].message_type = "PrePrepare"
          /\ \E p \in 1..Len(before.nodes) :
               /\ before.nodes[p].is_primary
               /\ ~before.nodes[p].is_faulty
               /\ added[1].node_id = before.nodes[p].node_id
          /\ \A k \in 1..(h - 1) :
               /\ added[1 + k].message_type = "Prepare"
               /\ added[1 + k].node_id = backups[k]
          /\ \A k \in 1..h :
               /\ added[h + k].message_type = "Commit"
               /\ added[h + k].node_id = honest[k]
          /\ \A k \in 1..(2 * h) :
               /\ added[k].view = before.current_view
               /\ added[k].sequence = before.current_sequence
               /\ added[k].sequence = out'.block.nonce

\* C24: the pBFT message log is append-only, and a successful round with h
\* honest nodes appends exactly 2h messages in this order: one PrePrepare from
\* the honest primary, h - 1 Prepare messages from the honest non-primary nodes
\* in list order, h Commit messages from all honest nodes; each carries the
\* round's view and sequence number, which is the block's nonce.
C24_MessageLog == [][PbftLogStep]_vars

\* a successful round in the second view with a faulty node: 7 nodes, 6
\* honest, 12 messages on top of the earlier rounds' messages
C24_Witness ==
  /\ out.op = "execute_consensus"
  /\ out.ok
  /\ consensus_algorithm.node_count = 7
  /\ consensus_algorithm.current_view = 1
  /\ out.block.nonce = RotationPeriod
  /\ Len(PbftHonestIds(consensus_algorithm)) = 6
  /\ Len(consensus_algorithm.message_log) > 12
  /\ consensus_algorithm.message_log[Len(consensus_algorithm.message_log)].message_type = "Commit"
  /\ consensus_algorithm.message_log[Len(consensus_algorithm.message_log)].view = 1


(***************************************************************************)
(* One pBFT instance with any flags.  The fields of the struct are public, *)
(* so an instance can be built with any combination of is_primary and      *)
(* is_faulty; execute_consensus is then called on it.                      *)
(***************************************************************************)
\* execute_consensus calls of the run
MaxRoundExecutes == 2

\* the sizes of the node list
PbftRoundSizes == {2, 3}

\* an instance of n nodes; primary and faulty are the sets of list positions flagged
PbftWithFlags(n, primary, faulty) ==
  [PBFT_new(n, 30) EXCEPT
     !.nodes = [i \in 1..n |-> [@[i] EXCEPT !.is_primary = (i \in primary),
                                            !.is_faulty = (i \in faulty)]]]

InitPbftRound ==
  /\ NoEngine
  /\ \E n \in PbftRoundSizes :
       \E primary \in SUBSET (1..n), faulty \in SUBSET (1..n) :
         consensus_algorithm = PbftWithFlags(n, primary, faulty)
  /\ hist = [executes |-> 0, edits |-> 0, max_executes |-> MaxRoundExecutes, max_edits |-> 0,
             finalized |-> <<>>]
  /\ out = NoOutcome

NextPbftRound == \E data \in Payloads : PbftExecute(data)

SpecPbftRound == InitPbftRound /\ [][NextPbftRound]_vars

\* the messages of a type among those a step appended to the log
PbftAdded(msg_type) ==
  LET old == Len(consensus_algorithm.message_log)
      log == consensus_algorithm'.message_log
  IN Cardinality({k \in (old + 1)..Len(log) : log[k].message_type = msg_type})

\* an execute_consensus step succeeds only with enough Prepare and Commit
\* messages; with too few of either it fails, the block keeps its empty hash
\* and its nonce, and current_sequence stays
PbftThresholdStep ==
  LET before == consensus_algorithm
      after == consensus_algorithm'
      required_votes == (PbftHonestCount(before) * 2) \div 3 + 1
      enough == /\ PbftAdded("Commit") >= required_votes
                /\ PbftAdded("Prepare") >= required_votes - 1
  IN hist'.executes = hist.executes + 1 =>
       /\ out'.ok => enough
       /\ ~enough =>
            /\ ~out'.ok
            /\ out'.block.hash = ""
            /\ out'.block.nonce = 0
            /\ after.current_sequence = before.current_sequence

\* C25: a pBFT round is reported as reached only if the valid Commit messages
\* number at least required_votes = (honest_count * 2 / 3) + 1 and the valid
\* Prepare messages at least required_votes - 1; if either threshold is
\* missed, execute_consensus returns an error, the block is not finalized and
\* the sequence counter does not advance.
C25_Thresholds == [][PbftThresholdStep]_vars

\* a round has failed on too few Prepare votes: every node is honest and two
\* of them are flagged primary
C25_Witness ==
  /\ out.op = "execute_consensus"
  /\ ~out.ok
  /\ out.error = "pBFT consensus not reached"
  /\ PbftHonestCount(consensus_algorithm) = Len(consensus_algorithm.nodes)
  /\ Cardinality(PbftPrimaries(consensus_algorithm)) = 2
  /\ consensus_algorithm.current_sequence = 0
  /\ Len(consensus_algorithm.message_log) > 0


(***************************************************************************)
(* pBFT on its own, a long run: ten nodes, any number of which may be      *)
(* marked faulty, finalize block after block, and set_faulty_nodes is      *)
(* called once the run is over.                                            *)
(***************************************************************************)
\* executes of the long run
MaxLongRounds == 110

\* <<node_count, fault_tolerance in hundredths>> of the long run
PbftLongConfig == <<10, 100>>

\* arguments of set_faulty_nodes after the long run: one node, every node
LongFaultLists == {<<9>>, <<0, 1, 2, 3, 4, 5, 6, 7, 8, 9>>}

InitPbftLong ==
  /\ NoEngine
  /\ consensus_algorithm = PBFT_new(PbftLongConfig[1], PbftLongConfig[2])
  /\ hist = [executes |-> 0, edits |-> 0, max_executes |-> MaxLongRounds, max_edits |-> 1,
             finalized |-> <<>>]
  /\ out = NoOutcome

NextPbftLong ==
  \/ \E data \in Payloads : PbftExecute(data)
  \/ /\ hist.executes = hist.max_executes
     /\ \E faulty_node_indices \in LongFaultLists : PbftSetFaultyNodes(faulty_node_indices)

SpecPbftLong == InitPbftLong /\ [][NextPbftLong]_vars

(***************************************************************************)
(* validate_block of a pBFT instance on the blocks it finalized earlier.   *)
(***************************************************************************)
\* every block finalized so far is rejected when its nonce is 0 and
\* current_sequence is above 1, and is otherwise accepted exactly when the
\* view and the number of honest nodes are those it was finalized under
PbftValidatesFinalized ==
  \A k \in 1..Len(hist.finalized) :
    LET entry == hist.finalized[k]
    IN PBFT_validate_block(consensus_algorithm, entry.block)
         = IF entry.block.nonce = 0 /\ consensus_algorithm.current_sequence > 1
           THEN FALSE
           ELSE /\ consensus_algorithm.current_view = entry.view
                /\ PbftHonestCount(consensus_algorithm) = entry.honest

\* C26: pBFT validate_block rejects any block whose nonce is 0 once
\* current_sequence > 1, and otherwise accepts a block exactly when its hash is
\* the digest of its fields, the current view, its nonce and the current
\* number of honest nodes; hence a block finalized earlier is rejected after a
\* primary rotation or after set_faulty_nodes changed the number of honest
\* nodes, and is accepted again when that number is back within the same view.
C26_ValidateFinalized == PbftValidatesFinalized


(***************************************************************************)
(* The rotation of a Proof of Authority instance (SpecPoa).                *)
(***************************************************************************)
\* the 0-based positions of the active authorities
PoaActive(poa) == {i \in 0..(Len(poa.authorities) - 1) : poa.authorities[i + 1].is_active}

\* the steps from position c forward to position q, cyclically: 1..n
PoaStepsAfter(c, q, n) == ((q - c - 1 + n) % n) + 1

\* q is the first active authority after position c in cyclic list order
PoaFirstActiveAfter(poa, c, q) ==
  /\ q \in PoaActive(poa)
  /\ \A r \in PoaActive(poa) :
       PoaStepsAfter(c, q, Len(poa.authorities)) <= PoaStepsAfter(c, r, Len(poa.authorities))

\* the rotation has a result in every state, whatever the active flags: a
\* position of the list, the first active one after the turn if any is active
PoaRotationLands ==
  LET n == Len(consensus_algorithm.authorities)
      c == consensus_algorithm.current_authority_index
      q == PoA_rotate_authority(consensus_algorithm).current_authority_index
  IN /\ q \in 0..(n - 1)
     /\ PoaActive(consensus_algorithm) # {} => PoaFirstActiveAfter(consensus_algorithm, c, q)

\* a successful execute_consensus is signed by the authority whose turn it
\* was, which is active, and leaves the turn with the first active authority
\* after the signer
PoaSignStep ==
  LET before == consensus_algorithm
      after == consensus_algorithm'
      signer == before.current_authority_index
  IN (hist'.executes = hist.executes + 1 /\ out'.ok) =>
       /\ signer \in PoaActive(before)
       /\ out'.block.nonce = signer
       /\ out'.block.hash = PoA_create_authority_signature(out'.block, before.authorities[signer + 1])
       /\ PoaFirstActiveAfter(before, signer, after.current_authority_index)

\* C27: the rotation after each Proof of Authority execute_consensus
\* terminates for any combination of active flags, a single active authority
\* and none active included; with an active authority it leaves
\* current_authority_index at the first active authority after the signer in
\* cyclic list order, and a block is never signed by an inactive authority.
C27_RotationLands == []PoaRotationLands /\ [][PoaSignStep]_vars

\* the only active authority of three has signed and the turn is back with it
C27_Witness ==
  /\ out.op = "execute_consensus"
  /\ out.ok
  /\ Len(consensus_algorithm.authorities) = 3
  /\ PoaActive(consensus_algorithm) = {1}
  /\ out.block.nonce = 1
  /\ consensus_algorithm.current_authority_index = 1


(***************************************************************************)
(* The authority list of a Proof of Authority instance (SpecPoa).          *)
(***************************************************************************)
\* the list is not empty and the turn is with a position of the list
PoaTurnInList ==
  /\ Len(consensus_algorithm.authorities) > 0
  /\ consensus_algorithm.current_authority_index < Len(consensus_algorithm.authorities)

\* add_authority with an address of the list fails and changes nothing
PoaAddExistingStep ==
  (/\ hist'.edits = hist.edits + 1
   /\ out'.op = "add_authority"
   /\ \E i \in 1..Len(consensus_algorithm.authorities) :
        consensus_algorithm.authorities[i].address = out'.arg)
  => /\ ~out'.ok
     /\ out'.error # ""
     /\ consensus_algorithm'.authorities = consensus_algorithm.authorities
     /\ consensus_algorithm'.current_authority_index = consensus_algorithm.current_authority_index

\* C28: in every Proof of Authority state reachable from new with a non-empty
\* list through add_authority, remove_authority and execute_consensus, the
\* authority list is non-empty and current_authority_index is smaller than the
\* number of authorities; add_authority with an address already present
\* returns an error and leaves the list unchanged.
C28_TurnInList == []PoaTurnInList /\ [][PoaAddExistingStep]_vars

\* the authority whose turn it was, the last of the list, has been removed:
\* the turn is back at the head of a shorter list
C28_Witness ==
  /\ out.op = "remove_authority"
  /\ out.ok
  /\ hist.executes >= 2
  /\ Len(hist.finalized) >= 2
  /\ Len(consensus_algorithm.authorities) = 2
  /\ Len(hist.finalized[Len(hist.finalized)].authorities) = 3
  /\ hist.finalized[Len(hist.finalized)].block.nonce = 1
  /\ consensus_algorithm.current_authority_index = 0
  /\ hist.finalized[Len(hist.finalized)].authorities[3].address = out.arg


(***************************************************************************)
(* Fresh instances whose structural precondition is not met, and one whose *)
(* precondition is met, driven through execute_consensus.                  *)
(***************************************************************************)
\* execute_consensus calls of the run
MaxFreshRounds == 3

\* the ConsensusType values of the engine whose instances start without
\* validators, burn records or plots
EmptyStartKinds ==
  {k \in Kinds : k.kind \in {"ProofOfStake", "ProofOfBurn", "ProofOfCapacity"}}

\* two authorities, the turn with the first, which is not active
PoA_inactive_turn == [PoA_new(<<"a", "b">>) EXCEPT !.authorities[1].is_active = FALSE]

\* the instances: what the factory builds for Stake, Burn and Capacity, an
\* Authority instance without authorities, one whose current authority is
\* inactive, and one with two active authorities
FreshInstances ==
  {create_consensus(k, rand) : k \in EmptyStartKinds, rand \in NodeRands}
    \cup {PoA_new(<<>>), PoA_inactive_turn, PoA_new(<<"a", "b">>)}

InitFresh ==
  /\ NoEngine
  /\ consensus_algorithm \in FreshInstances
  /\ hist = [executes |-> 0]
  /\ out = NoOutcome

\* execute_consensus on the instance
FreshExecute(data, previous_hash) ==
  /\ hist.executes < MaxFreshRounds
  /\ \E block \in {BlockNew(hist.executes, data, previous_hash, now)} :
       \E result \in {execute_consensus(consensus_algorithm, block, 0, now)} :
         /\ consensus_algorithm' = result.alg
         /\ out' = [op |-> "execute_consensus", ok |-> result.ok, block |-> result.block,
                    proof_data |-> result.proof_data, error |-> result.error]
  /\ hist' = [hist EXCEPT !.executes = @ + 1]
  /\ UNCHANGED <<blocks, consensus_type, consensus_stats, now>>

NextFresh ==
  \E data \in PowPayloads, previous_hash \in SeedHashes : FreshExecute(data, previous_hash)

SpecFresh == InitFresh /\ [][NextFresh]_vars

\* Stake without validators, Authority without an authority or with an
\* inactive current authority, Burn without burn records, Capacity without plots
PreconditionUnmet(alg) ==
  CASE alg.kind = "ProofOfStake" -> Len(alg.validators) = 0
    [] alg.kind = "ProofOfAuthority" ->
         \/ Len(alg.authorities) = 0
         \/ alg.current_authority_index >= Len(alg.authorities)
         \/ ~alg.authorities[alg.current_authority_index + 1].is_active
    [] alg.kind = "ProofOfBurn" -> Len(alg.burn_transactions) = 0
    [] alg.kind = "ProofOfCapacity" -> Len(alg.plots) = 0
    [] OTHER -> FALSE

\* what the factory builds for Stake, Burn and Capacity has no validator, burn
\* record or plot
FactoryStartsEmpty ==
  \A k \in EmptyStartKinds, rand \in NodeRands : PreconditionUnmet(create_consensus(k, rand))

\* execute_consensus on an instance whose precondition is unmet fails and
\* leaves the block's hash and nonce and the instance as they were
UnmetExecuteStep ==
  (hist'.executes = hist.executes + 1 /\ PreconditionUnmet(consensus_algorithm)) =>
    /\ ~out'.ok
    /\ out'.error # ""
    /\ out'.block.hash = ""
    /\ out'.block.nonce = 0
    /\ consensus_algorithm' = consensus_algorithm

MaxDifficultyCalls == 1

\* the history grows to one block past the window
MaxHistory == RecentWindow + 1

\* block timestamps, in seconds: equal, one second apart, five minutes apart
HistoryTimestamps == {0, 1, 300}

\* new(4) with the default target of a minute; difficulty 0 with a target of a second
DifficultyInstances == {PoW_new(4), PoW_with_target_time(0, 1)}

InitPowDifficulty ==
  /\ NoEngine
  /\ consensus_algorithm \in DifficultyInstances
  /\ hist = [calls |-> 0]
  /\ out = NoOutcome

\* one more block in the history handed to calculate_next_difficulty
HistoryAppend(timestamp) ==
  /\ Len(blocks) < MaxHistory
  /\ blocks' = Append(blocks, BlockNew(Len(blocks), "tx1", "0", timestamp))
  /\ out' = NoOutcome
  /\ hist' = [hist EXCEPT !.calls = 0]
  /\ UNCHANGED <<consensus_type, consensus_stats, consensus_algorithm, now>>

\* calculate_next_difficulty(&self, &blocks)
PowNextDifficulty ==
  /\ hist.calls < MaxDifficultyCalls
  /\ out' = [op |-> "calculate_next_difficulty",
             result |-> PoW_calculate_next_difficulty(consensus_algorithm, blocks)]
  /\ hist' = [hist EXCEPT !.calls = @ + 1]
  /\ UNCHANGED <<blocks, consensus_type, consensus_stats, consensus_algorithm, now>>

NextPowDifficulty ==
  \/ \E timestamp \in HistoryTimestamps : HistoryAppend(timestamp)
  \/ PowNextDifficulty

SpecPowDifficulty == InitPowDifficulty /\ [][NextPowDifficulty]_vars

\* the blocks the adjustment looks at: the last min(10, len) of the history
RecentOf(chain) ==
  LET count == IF Len(chain) < RecentWindow THEN Len(chain) ELSE RecentWindow
  IN [i \in 1..count |-> chain[Len(chain) - count + i]]

\* the integer average of the consecutive timestamp differences of the recent
\* blocks; the differences add up to the last timestamp less the first
AverageGap(chain) ==
  LET recent == RecentOf(chain)
  IN I64Div(recent[Len(recent)].timestamp - recent[1].timestamp, Len(recent) - 1)

\* the difficulty the adjustment rule gives for an instance and a history
AdjustedDifficulty(pow, chain) ==
  IF Len(chain) < 2 THEN pow.difficulty
  ELSE IF AverageGap(chain) < I64Div(pow.target_time, 2) THEN pow.difficulty + 1
  ELSE IF AverageGap(chain) > pow.target_time * 2
       THEN (IF pow.difficulty = 0 THEN 0 ELSE pow.difficulty - 1)
  ELSE pow.difficulty

\* a step that is a call of calculate_next_difficulty
NextDifficultyStep == out'.op = "calculate_next_difficulty" /\ hist'.calls = hist.calls + 1

\* C30: calculate_next_difficulty returns the current difficulty for a history
\* of fewer than 2 blocks; otherwise it averages the consecutive timestamp
\* differences of the last min(10, len) blocks and returns difficulty+1 when
\* the average is below target/2, difficulty-1 floored at 0 when it is above
\* target*2, and the current difficulty otherwise; the call leaves the
\* instance, and so its difficulty, as it was
C30_NextDifficulty ==
  /\ [](out.op = "calculate_next_difficulty"
          => out.result = AdjustedDifficulty(consensus_algorithm, blocks))
  /\ [][NextDifficultyStep => consensus_algorithm' = consensus_algorithm]_vars

\* a history longer than the window whose first block is later than its last:
\* the last 10 blocks span five minutes, so a one-minute target keeps the difficulty
C30_Witness ==
  /\ out.op = "calculate_next_difficulty"
  /\ Len(blocks) > RecentWindow
  /\ blocks[1].timestamp = 300
  /\ blocks[2].timestamp = 0
  /\ blocks[Len(blocks)].timestamp = 300
  /\ consensus_algorithm.target_time = DefaultTargetSeconds
  /\ out.result = consensus_algorithm.difficulty


(***************************************************************************)
(* A Stake or a Burn instance that is also reconfigured while it runs.     *)
(***************************************************************************)
\* configure calls of the run, and calls of any kind
MaxLedgerConfigures == 1
MaxLedgerCalls == 3

\* minimum_stake / burn_amount parameters: absent, unparsable, raised
LedgerStakeParams == {ParamAbsent, ParamInvalid, ParamValue(2000)}
LedgerBurnParams == {ParamAbsent, ParamInvalid, ParamValue(200)}

\* slashing_rate / decay_factor parameters
LedgerRateParams == {ParamAbsent, ParamValue(50)}

\* burn_address parameters: absent or another address
LedgerAddressParams == {"", "burn2"}

InitLedger ==
  /\ NoEngine
  /\ consensus_algorithm \in {PoS_new(PosMinimumStake), PoB_new(PobMinimumBurn)}
  /\ hist = [executes |-> 0, edits |-> 0, selections |-> <<>>, configures |-> 0]
  /\ out = NoOutcome

\* the run has calls left
LedgerCallsLeft == hist.executes + hist.edits + hist.configures < MaxLedgerCalls

\* ProofOfStake::configure on the instance
PosConfigure(minimum_stake, slashing_rate) ==
  /\ consensus_algorithm.kind = "ProofOfStake"
  /\ hist.configures < MaxLedgerConfigures
  /\ LedgerCallsLeft
  /\ \E result \in {PoS_configure(consensus_algorithm, minimum_stake, slashing_rate)} :
       /\ consensus_algorithm' = result.alg
       /\ out' = [op |-> "configure", ok |-> result.ok, error |-> result.error]
  /\ hist' = [hist EXCEPT !.configures = @ + 1]
  /\ UNCHANGED <<blocks, consensus_type, consensus_stats, now>>

\* ProofOfBurn::configure on the instance
PobConfigure(burn_amount, decay_factor, burn_address) ==
  /\ consensus_algorithm.kind = "ProofOfBurn"
  /\ hist.configures < MaxLedgerConfigures
  /\ LedgerCallsLeft
  /\ \E result \in {PoB_configure(consensus_algorithm, burn_amount, decay_factor, burn_address)} :
       /\ consensus_algorithm' = result.alg
       /\ out' = [op |-> "configure", ok |-> result.ok, error |-> result.error]
  /\ hist' = [hist EXCEPT !.configures = @ + 1]
  /\ UNCHANGED <<blocks, consensus_type, consensus_stats, now>>

NextLedger ==
  \/ LedgerCallsLeft /\ consensus_algorithm.kind = "ProofOfStake" /\ NextPos
  \/ LedgerCallsLeft /\ consensus_algorithm.kind = "ProofOfBurn" /\ NextPob
  \/ \E minimum_stake \in LedgerStakeParams, slashing_rate \in LedgerRateParams :
       PosConfigure(minimum_stake, slashing_rate)
  \/ \E burn_amount \in LedgerBurnParams, decay_factor \in LedgerRateParams,
        burn_address \in LedgerAddressParams :
       PobConfigure(burn_amount, decay_factor, burn_address)

SpecLedger == InitLedger /\ [][NextLedger]_vars

\* the validator list of a Stake instance, the burn ledger of a Burn instance
LedgerOf(alg) ==
  IF alg.kind = "ProofOfStake" THEN alg.validators ELSE alg.burn_transactions

\* the minimum an entry is held to
LedgerMinimum(alg) ==
  IF alg.kind = "ProofOfStake" THEN alg.minimum_stake ELSE alg.burn_amount

\* the stake or the amount of a ledger entry
EntryAmount(alg, entry) == IF alg.kind = "ProofOfStake" THEN entry.stake ELSE entry.amount

\* a step that is an add_validator or add_burn_transaction call
LedgerAddCall == hist'.edits = hist.edits + 1

\* the stake or the amount an add call was made with
LedgerAddAmount ==
  IF consensus_algorithm.kind = "ProofOfStake" THEN out'.arg[2] ELSE out'.arg[1]

\* what a step does to the ledger
LedgerStep ==
  LET before == LedgerOf(consensus_algorithm)
      after == LedgerOf(consensus_algorithm')
  IN IF LedgerAddCall
     THEN IF LedgerAddAmount < LedgerMinimum(consensus_algorithm)
          THEN ~out'.ok /\ out'.error # "" /\ after = before
          ELSE /\ out'.ok
               /\ Len(after) = Len(before) + 1
               /\ SubSeq(after, 1, Len(before)) = before
               /\ EntryAmount(consensus_algorithm, after[Len(after)]) = LedgerAddAmount
     ELSE after = before

\* C31: add_validator with a stake below minimum_stake and
\* add_burn_transaction with an amount below the minimum return an error and
\* leave the validator list / burn ledger as it was; an accepted entry goes to
\* the end; execute_consensus and configure never change, reorder or remove an entry.
C31_AppendOnly == [][LedgerStep]_vars

\* with one entry in the ledger and the minimum raised by configure, an add
\* below the new minimum (but not below the old one) has been rejected
C31_Witness ==
  /\ out.op \in {"add_validator", "add_burn_transaction"}
  /\ ~out.ok
  /\ Len(LedgerOf(consensus_algorithm)) = 1
  /\ hist.configures = 1
  /\ (IF consensus_algorithm.kind = "ProofOfStake" THEN out.arg[2] >= PosMinimumStake
      ELSE out.arg[1] >= PobMinimumBurn)


(***************************************************************************)
(* Proof of Capacity on its own: plots are created, a block is finalized   *)
(* and the finalized block is validated on the instance as it is.          *)
(***************************************************************************)
\* create_plot and execute_consensus calls of the run
MaxPocCreates == 2
MaxPocRounds == 1

\* storage_requirement of the instance
PocRequirement == 100

\* sizes (one below the requirement) and nonce counts create_plot is called with
PocSizes == {50, 100}
PocNonceCounts == {0, 1, 2}

\* values rng.random::<u64>() returns while a plot is built
PocRandoms == {0, 1, 7}

\* the longest table a plot of the run has
PocLargestTable == CHOOSE n \in PocNonceCounts : \A m \in PocNonceCounts : m <= n

\* the draws of one create_plot call: one per table entry
PocDraws(nonce_count) == [1..nonce_count -> PocRandoms]

\* what the sampling of verify_plot_capacity can draw for one plot: with
\* min(plot_verification_samples, len) draws from 0..len-1, any non-empty set
\* of at most that many indices; nothing is drawn for an empty table
PocSampledOf(poc, plot) ==
  IF Len(plot.hash_pairs) = 0 THEN {{}}
  ELSE {s \in SUBSET (0..(Len(plot.hash_pairs) - 1)) :
          s # {} /\ Cardinality(s) <= poc.plot_verification_samples}

\* the samplings of one validate_block call: one sampled set per plot
PocSamplings(poc) ==
  {f \in [1..Len(poc.plots) -> SUBSET (0..(PocLargestTable - 1))] :
     \A i \in 1..Len(poc.plots) : f[i] \in PocSampledOf(poc, poc.plots[i])}

InitPoc ==
  /\ NoEngine
  /\ consensus_algorithm = PoC_new(PocRequirement)
  /\ hist = [executes |-> 0, creates |-> 0]
  /\ out = NoOutcome

\* create_plot on the instance
PocCreatePlot(size_gb, nonce_count) ==
  /\ hist.creates < MaxPocCreates
  /\ \E nonces \in PocDraws(nonce_count) :
       \E result \in {PoC_create_plot(consensus_algorithm, size_gb, nonce_count, nonces, now)} :
         /\ consensus_algorithm' = result.alg
         /\ out' = [op |-> "create_plot", ok |-> result.ok, plot_id |-> result.plot_id,
                    error |-> result.error]
  /\ hist' = [hist EXCEPT !.creates = @ + 1]
  /\ UNCHANGED <<blocks, consensus_type, consensus_stats, now>>

\* execute_consensus on the instance
PocExecute(data, previous_hash) ==
  /\ hist.executes < MaxPocRounds
  /\ \E block \in {BlockNew(hist.executes, data, previous_hash, now)} :
       \E result \in {PoC_execute_consensus(consensus_algorithm, block)} :
         /\ consensus_algorithm' = result.alg
         /\ out' = [op |-> "execute_consensus", ok |-> result.ok, block |-> result.block,
                    proof_data |-> result.proof_data, error |-> result.error,
                    handed |-> block]
  /\ hist' = [hist EXCEPT !.executes = @ + 1]
  /\ UNCHANGED <<blocks, consensus_type, consensus_stats, now>>

\* validate_block on the block the last execute_consensus returned
PocValidate ==
  /\ out.op = "execute_consensus"
  /\ out.ok
  /\ \E sampled \in PocSamplings(consensus_algorithm) :
       out' = [op |-> "validate_block", block |-> out.block, sampled |-> sampled,
               result |-> PoC_validate_block(consensus_algorithm, out.block, sampled)]
  /\ UNCHANGED <<blocks, consensus_type, consensus_stats, consensus_algorithm, now, hist>>

NextPoc ==
  \/ \E size_gb \in PocSizes, nonce_count \in PocNonceCounts : PocCreatePlot(size_gb, nonce_count)
  \/ \E data \in Payloads, previous_hash \in SeedHashes : PocExecute(data, previous_hash)
  \/ PocValidate

SpecPoc == InitPoc /\ [][NextPoc]_vars

\* the deadline of plot i for a block: <<found, deadline, hash1>>
PocDeadline(poc, i, block) == PoC_calculate_deadline_for_plot(poc.plots[i], block)

\* plot i has the smallest deadline of all plots and is the first to have it
PocWins(poc, i, block) ==
  /\ PocDeadline(poc, i, block)[1]
  /\ \A j \in 1..Len(poc.plots) :
       PocDeadline(poc, j, block)[1] =>
         \/ PocDeadline(poc, i, block)[2] < PocDeadline(poc, j, block)[2]
         \/ PocDeadline(poc, i, block)[2] = PocDeadline(poc, j, block)[2] /\ i <= j

\* a successful execute_consensus chose the winning plot and stored its deadline
PocSelectsSmallest ==
  (out.op = "execute_consensus" /\ out.ok) =>
    \E i \in 1..Len(consensus_algorithm.plots) :
      /\ PocWins(consensus_algorithm, i, out.handed)
      /\ MapGet(out.proof_data, "winning_plot") = consensus_algorithm.plots[i].plot_id
      /\ out.block.nonce = PocDeadline(consensus_algorithm, i, out.handed)[2]

\* validate_block accepts the block execute_consensus has just returned
PocValidatesFinalized == out.op = "validate_block" => out.result

\* C32: with a plot that meets the storage requirement, execute_consensus
\* selects the plot with the smallest deadline (the first in list order on
\* ties) and stores that deadline as the block's nonce, and validate_block on
\* the same unchanged instance accepts the resulting block.
C32_CapacityValidates == PocSelectsSmallest /\ PocValidatesFinalized


(***************************************************************************)
(* Further properties of the engine (Spec).                                *)
(***************************************************************************)
\* the engine still runs the algorithm it was created with
NeverSwitched == Switches = 0

\* C33: for an engine created with any algorithm kind and never switched,
\* is_valid() returns true after every successful add_block.
C33_ValidAfterAddBlock ==
  (NeverSwitched /\ LastDid.op = "add_block" /\ LastDid.ok) => IsValidResults = {TRUE}


\* add_block calls so far in which the algorithm's execute returned an error
FailedAddBlocks == Cardinality({i \in 1..Len(hist) : hist[i].op = "add_block" /\ ~hist[i].ok})

\* the counters agree with the chain and with the calls made
StatsCount ==
  /\ consensus_stats.total_blocks = Len(blocks)
  /\ consensus_stats.consensus_failures = FailedAddBlocks

\* a switch_consensus step leaves the statistics as they were
SwitchKeepsStats ==
  (Len(hist') = Len(hist) + 1 /\ hist'[Len(hist')].op = "switch_consensus")
    => consensus_stats' = consensus_stats

\* C34: in every engine state total_blocks is the number of blocks in the
\* chain, genesis included, and consensus_failures is the number of add_block
\* calls in which the algorithm's execute returned an error; switch_consensus
\* changes neither (is_valid takes the engine by shared reference and has no
\* step of its own).
C34_StatsCount == []StatsCount /\ [][SwitchKeepsStats]_vars

\* two blocks were appended, the engine was switched and an add_block has failed
C34_Witness ==
  /\ consensus_stats.total_blocks = 3
  /\ consensus_stats.consensus_failures = 1
  /\ Switches = 1
  /\ LastDid.op = "add_block"
  /\ ~LastDid.ok


(***************************************************************************)
(* Rounds that can run (SpecPbftConfigure).                                *)
(***************************************************************************)
\* the messages of one type among a sequence of messages
PbftOfType(messages, type) ==
  Cardinality({k \in 1..Len(messages) : messages[k].message_type = type})

\* a round on an instance that passes the honest-node precheck and has an
\* honest primary gets h - 1 prepares and h commits, which meet both
\* thresholds, and succeeds
PbftRunStep ==
  LET before == consensus_algorithm
      after == consensus_algorithm'
      added == SubSeq(after.message_log, Len(before.message_log) + 1, Len(after.message_log))
      h == PbftHonestCount(before)
  IN (hist'.executes = hist.executes + 1 /\ ~PbftCannotRun(before)) =>
       /\ h >= 1
       /\ PbftOfType(added, "Prepare") = h - 1
       /\ PbftOfType(added, "Prepare") >= (h * 2) \div 3
       /\ PbftOfType(added, "Commit") = h
       /\ PbftOfType(added, "Commit") >= (h * 2) \div 3 + 1
       /\ out'.ok

\* a failed round failed for want of honest nodes or of an honest primary
PbftStructuralFailure ==
  (out.op = "execute_consensus" /\ ~out.ok) =>
    /\ out.error # "pBFT consensus not reached"
    /\ PbftCannotRun(consensus_algorithm)

\* C35: whenever execute_consensus passes the honest-node precheck and an
\* honest primary exists, the h - 1 prepares reach (h * 2 / 3) and the h commits
\* reach (h * 2 / 3) + 1 for the honest count h >= 1, so "pBFT consensus not
\* reached" is never returned: a failed round has too few honest nodes, no
\* honest primary, or no nodes.
C35_ThresholdsAlwaysMet == []PbftStructuralFailure /\ [][PbftRunStep]_vars

\* a round has succeeded with five honest nodes out of seven
C35_Witness ==
  /\ out.op = "execute_consensus"
  /\ out.ok
  /\ consensus_algorithm.node_count = 7
  /\ PbftHonestCount(consensus_algorithm) = 5


(***************************************************************************)
(* pBFT on its own through rotations, fault injection and a rebuild of     *)
(* the node list.                                                          *)
(***************************************************************************)
\* executes and set_faulty_nodes calls of the run
MaxPrimaryRounds == 11
MaxPrimaryEdits == 2

\* <<node_count, fault_tolerance in hundredths>> the instance is created with
PbftPrimaryConfig == <<4, 25>>

\* arguments of set_faulty_nodes: nobody, the first primary, the primary after a rotation
PrimaryFaultLists == {<<>>, <<0>>, <<1>>}

\* node_count entry configure is called with: another count than the current one
PrimaryNodeCounts == {ParamValue(7)}

InitPbftPrimary ==
  /\ NoEngine
  /\ consensus_algorithm = PBFT_new(PbftPrimaryConfig[1], PbftPrimaryConfig[2])
  /\ hist = [executes |-> 0, edits |-> 0, max_executes |-> MaxPrimaryRounds,
             max_edits |-> MaxPrimaryEdits, finalized |-> <<>>, configures |-> 0]
  /\ out = NoOutcome

\* set_faulty_nodes and configure calls together stay within MaxPrimaryEdits
PrimaryEditsLeft == hist.edits + hist.configures < MaxPrimaryEdits

NextPbftPrimary ==
  \/ \E data \in Payloads : PbftExecute(data)
  \/ PrimaryEditsLeft /\ \E faulty_node_indices \in PrimaryFaultLists :
                           PbftSetFaultyNodes(faulty_node_indices)
  \/ PrimaryEditsLeft /\ \E node_count \in PrimaryNodeCounts :
                           PbftConfigure(node_count, ParamAbsent)

SpecPbftPrimary == InitPbftPrimary /\ [][NextPbftPrimary]_vars

\* the node marked primary is faulty
PbftPrimaryFaulty(pbft) ==
  \E i \in 1..Len(pbft.nodes) : pbft.nodes[i].is_primary /\ pbft.nodes[i].is_faulty

\* the kinds of step
PbftExecuteStep == hist'.executes = hist.executes + 1
PbftSetFaultyStep == hist'.edits = hist.edits + 1
PbftRebuildStep ==
  /\ hist'.configures = hist.configures + 1
  /\ consensus_algorithm'.node_count # consensus_algorithm.node_count

\* the primary or the view has changed in the step
PbftPrimaryMoved ==
  \/ PbftPrimaries(consensus_algorithm') # PbftPrimaries(consensus_algorithm)
  \/ consensus_algorithm'.current_view # consensus_algorithm.current_view

\* with a faulty primary, an execute fails, and primary and view stay and the
\* primary stays faulty
PbftPrimaryStuck ==
  /\ PbftExecuteStep => ~out'.ok
  /\ ~PbftPrimaryMoved
  /\ PbftPrimaryFaulty(consensus_algorithm')

\* the statement without regard to configure: the primary and the view move
\* only in a successful execute, and a faulty primary stays until set_faulty_nodes
PbftStuckUntilSetFaulty ==
  /\ PbftPrimaryMoved => (PbftExecuteStep /\ out'.ok)
  /\ (PbftPrimaryFaulty(consensus_algorithm) /\ ~PbftSetFaultyStep) => PbftPrimaryStuck

\* the same, leaving aside the configure calls that rebuild the node list
PbftStuckUntilReset ==
  /\ PbftPrimaryMoved => ((PbftExecuteStep /\ out'.ok) \/ PbftRebuildStep)
  /\ (PbftPrimaryFaulty(consensus_algorithm) /\ ~PbftSetFaultyStep /\ ~PbftRebuildStep)
       => PbftPrimaryStuck

\* C36 as stated: primary rotation happens only as part of a successful round;
\* once set_faulty_nodes has marked the current primary faulty, every execute
\* fails and neither the primary nor the view changes until a later
\* set_faulty_nodes call makes that node honest again.
C36_StuckUntilSetFaulty == [][PbftStuckUntilSetFaulty]_vars

\* C36, amended: the same, until a later set_faulty_nodes call makes the node
\* honest again or a configure call with another node_count rebuilds the node
\* list; execute_consensus itself never replaces a faulty primary.
C36_StuckUntilReset == [][PbftStuckUntilReset]_vars

\* after a rotation the new primary was marked faulty and an execute has failed
C36_Witness ==
  /\ out.op = "execute_consensus"
  /\ ~out.ok
  /\ consensus_algorithm.current_view = 1
  /\ PbftPrimaryFaulty(consensus_algorithm)
  /\ PbftPrimaries(consensus_algorithm) = {2}


(***************************************************************************)
(* Removing an authority whose turn it is not (SpecPoa).                   *)
(***************************************************************************)
\* the address of the authority whose turn it is
PoaCurrentAddress(poa) == poa.authorities[poa.current_authority_index + 1].address

\* the address of the authority that signed a recorded block
PoaSignerOf(entry) == entry.authorities[entry.block.nonce + 1].address

\* a successful remove_authority of an authority other than the current one
PoaRemoveOther ==
  /\ hist'.edits = hist.edits + 1
  /\ out'.op = "remove_authority"
  /\ out'.ok
  /\ out'.arg # PoaCurrentAddress(consensus_algorithm)

\* the turn stays with the same authority, and the blocks the remaining
\* authorities finalized validate as they did
PoaRemoveOtherStep ==
  PoaRemoveOther =>
    /\ PoaCurrentAddress(consensus_algorithm') = PoaCurrentAddress(consensus_algorithm)
    /\ \A k \in 1..Len(hist.finalized) :
         PoaSignerOf(hist.finalized[k]) # out'.arg =>
           PoA_validate_block(consensus_algorithm', hist.finalized[k].block)
             = PoA_validate_block(consensus_algorithm, hist.finalized[k].block)

\* C37: remove_authority of an authority other than the one at
\* current_authority_index does not change which authority signs the next
\* block, and does not change the validate result of the blocks the remaining
\* authorities finalized earlier.
C37_RemoveOtherKeeps == [][PoaRemoveOtherStep]_vars


\* the engine has just been created
JustCreated == Len(hist) = 1

\* the instances the factory builds for the engine's type
FactoryInitial == {create_consensus(consensus_type, rand) : rand \in FactoryRands(consensus_type)}

\* the counters of a pBFT, Authority or History instance stand at their start
CountersAtStart(alg) ==
  CASE alg.kind = "PracticalByzantineFaultTolerance" ->
         alg.current_sequence = 0 /\ alg.current_view = 0 /\ alg.message_log = <<>>
    [] alg.kind = "ProofOfAuthority" -> alg.current_authority_index = 0
    [] alg.kind = "ProofOfHistory" ->
         alg.sequence_number = 0 /\ alg.previous_output = "genesis"
    [] OTHER -> TRUE

\* right after creation the active instance is as the factory builds it
CreatedUntouched ==
  JustCreated =>
    /\ consensus_algorithm \in FactoryInitial
    /\ CountersAtStart(consensus_algorithm)

\* the kinds whose proof depends on a position or a sequence kept by the instance
CountingKinds == {"PracticalByzantineFaultTolerance", "ProofOfAuthority", "ProofOfHistory"}

\* the first call on the engine was a successful add_block
FirstBlockAdded ==
  /\ Len(hist) = 2
  /\ hist[2].op = "add_block"
  /\ hist[2].ok
  /\ consensus_type.kind \in CountingKinds

\* the proof entry that names the position or the sequence a block was finalized at
PositionKey ==
  CASE consensus_type.kind = "PracticalByzantineFaultTolerance" -> "sequence_number"
    [] consensus_type.kind = "ProofOfAuthority" -> "authority_address"
    [] OTHER -> "sequence_number"

\* the first added block was finalized at the position the genesis block was
FirstBlockFromGenesisState ==
  FirstBlockAdded =>
    /\ blocks[2].nonce = blocks[1].nonce
    /\ MapGet(blocks[2].consensus_data, PositionKey) = MapGet(blocks[1].consensus_data, PositionKey)

\* C38: creating an engine does not advance the active algorithm's state: right
\* after new_with_consensus the active instance is in its factory-initial state,
\* and the first add_block is finalized from the state the genesis block was
\* finalized from (the same authority, the same sequence-derived nonce).
C38_CreationKeepsState == CreatedUntouched /\ FirstBlockFromGenesisState

\* an Authority engine whose first added block is signed, like the genesis
\* block, by the first authority
C38_Witness ==
  /\ FirstBlockAdded
  /\ consensus_type.kind = "ProofOfAuthority"
  /\ consensus_algorithm.current_authority_index = 1
  /\ MapGet(blocks[1].consensus_data, "authority_address") = "a"
  /\ MapGet(blocks[2].consensus_data, "authority_address") = "a"


(***************************************************************************)
(* The proof metadata of a pBFT round (SpecPbft).                          *)
(***************************************************************************)
\* a successful execute_consensus
PbftFinalizedStep ==
  /\ hist'.executes = hist.executes + 1
  /\ out'.op = "execute_consensus"
  /\ out'.ok

\* the round is the one that brings the sequence to a multiple of the rotation period
PbftRotatingRound == (consensus_algorithm.current_sequence + 1) % RotationPeriod = 0

\* the node id of the primary of an instance, "None" without one
PbftPrimaryId(pbft) ==
  IF PBFT_get_primary_node(pbft) = 0 THEN "None"
  ELSE pbft.nodes[PBFT_get_primary_node(pbft)].node_id

\* the block carries the digest computed under the view the round ran in
PbftHashedUnderRoundView ==
  out'.block.hash =
    PBFT_block_hash(out'.block, consensus_algorithm.current_view, out'.block.nonce,
                    Cardinality(PBFT_get_honest_nodes(consensus_algorithm)))

\* sequence_number of the proof is the nonce of the block
PbftProofSequence ==
  MapGet(out'.proof_data, "sequence_number") = ToString(out'.block.nonce)

\* consensus_view and primary_node of the proof are those the round ran under
PbftProofViewAndPrimary ==
  /\ MapGet(out'.proof_data, "consensus_view") = ToString(consensus_algorithm.current_view)
  /\ MapGet(out'.proof_data, "primary_node") = PbftPrimaryId(consensus_algorithm)

PbftProofStep ==
  PbftFinalizedStep =>
    /\ PbftHashedUnderRoundView
    /\ PbftProofSequence
    /\ PbftProofViewAndPrimary

\* the same without the rounds that rotate the primary
PbftProofQuietStep ==
  (PbftFinalizedStep /\ ~PbftRotatingRound) =>
    /\ PbftHashedUnderRoundView
    /\ PbftProofSequence
    /\ PbftProofViewAndPrimary

\* in every successful round the digest and sequence_number agree with the block
PbftProofSequenceStep ==
  PbftFinalizedStep => PbftHashedUnderRoundView /\ PbftProofSequence

\* C39: for every successful pBFT execute_consensus, sequence_number of the
\* proof equals the nonce of the returned block, and consensus_view and
\* primary_node are the view and the primary under which the round ran and
\* the hash of the block was computed, also in a round that rotates the primary.
C39_ProofAgreesWithBlock == [][PbftProofStep]_vars

====
